---- MODULE Spec2Model ----
(***************************************************************************)
(* A model of the Linux terminal AI companion (refactored package          *)
(* ai_companion and the original single-file ai_companion.py).             *)
(*                                                                         *)
(* Strings are sequences of one-character strings, so that prefix and      *)
(* substring tests are computed as Python computes them.  Times are whole  *)
(* seconds.  Every component has its own specification; a component that   *)
(* a specification does not exercise stays in its idle value.              *)
(***************************************************************************)
EXTENDS Integers, Sequences, FiniteSets, TLC

(***************************************************************************)
(* String helpers (Python str.startswith, the in operator, str.split).     *)
(***************************************************************************)
StartsWith(s, p) ==
    /\ Len(p) <= Len(s)
    /\ \A i \in 1..Len(p) : s[i] = p[i]

Contains(s, p) ==
    \E k \in 0..(Len(s) - Len(p)) : \A i \in 1..Len(p) : s[k + i] = p[i]

\* All lists of at most n elements of S (the inputs of the specifications).
SeqsUpTo(S, n) == UNION {[1..m -> S] : m \in 0..n}

RECURSIVE Digits(_)
Digits(n) ==
    IF n < 10 THEN <<n>> ELSE Append(Digits(n \div 10), n % 10)

DigitChar(d) == <<"0", "1", "2", "3", "4", "5", "6", "7", "8", "9">>[d + 1]

\* str(n) for a non-negative integer n
IntToStr(n) == [i \in 1..Len(Digits(n)) |-> DigitChar(Digits(n)[i])]

(***************************************************************************)
(* Words used by the filters and the command inputs.                       *)
(***************************************************************************)
W_return == <<"r", "e", "t", "u", "r", "n">>
W_local == <<"l", "o", "c", "a", "l">>
W_set == <<"s", "e", "t">>
W_export == <<"e", "x", "p", "o", "r", "t">>
W_python3 == <<"p", "y", "t", "h", "o", "n", "3">>
W_monitor == <<"-", "-", "m", "o", "n", "i", "t", "o", "r">>
W_ai_companion == <<"_", "a", "i", "_", "c", "o", "m", "p", "a", "n", "i", "o", "n">>
W_history == <<"h", "i", "s", "t", "o", "r", "y">>

cmd_foo == <<"f", "o", "o">>
cmd_foo_1 == <<"f", "o", "o", "_", "1">>
cmd_settle == <<"s", "e", "t", "t", "l", "e">>
cmd_python3_monitor == W_python3 \o <<" ", "m">> \o <<" ">> \o W_monitor
cmd_history == W_history \o <<" ", "1">>

\* The commands presented to the Deduplicator: two that pass the filter, one
\* that only shares the prefix "set", one invocation of the monitor entry.
DedupCommands == {cmd_foo, cmd_foo_1, cmd_settle, cmd_python3_monitor}

\* Exit codes presented to the Deduplicator (130 is SIGINT).
DedupExitCodes == {1, 130}

SIGINT_EXIT == 130
DEDUP_WINDOW == 5

\* Bounds of the Deduplicator specification.
MaxTime == 7
MaxCallSeconds == 1

NoKey == <<>>

VARIABLES
    now,                    \* time.time(), in seconds
    last_analyzed_command,  \* ErrorAnalyzer.last_analyzed_command
    last_analyzed_time,     \* ErrorAnalyzer.last_analyzed_time
    last_call,              \* what the last analyze_error call saw and did
    prev_call               \* the same for the call before it

VARIABLES
    max_history,            \* CommandHistoryAnalyzer.max_history
    command_history,        \* CommandHistoryAnalyzer.command_history
    appended                \* number of add_command calls made so far

VARIABLES
    classify_input,         \* the commands argument of analyze_command_patterns
    pattern_result          \* its return value: (name, count) pairs in dict order

VARIABLES
    dir_listing,            \* what os.listdir(path) returns
    directory_info          \* the DirectoryInfo get_directory_info returns

VARIABLES
    probes,                 \* what the four resource probes find on the host
    system_status           \* the SystemStatus get_system_status returns

VARIABLES
    stderr_file,            \* the text the failed command wrote to $AI_STDERR_FILE
    hook_env,               \* the shell's environment: base64 and the program found or not
    delivered               \* what the hook sent and what _decode_stderr returned

VARIABLES
    config_file,            \* the configuration file on disk
    loaded                  \* what ConfigManager._load_config returned or raised

VARIABLES
    last_prompt,            \* the last _build_error_prompt call: arguments and result
    prev_prompt             \* the same for the call before it

VARIABLES
    cli_run                 \* the last invocation of main(): operation, outcome, exit status

VARIABLES
    bashrc,                 \* ~/.bashrc: whether it exists, and its lines
    hook_installs,          \* number of hook blocks written so far
    last_hook_op            \* the last install or uninstall: result and the file before it

VARIABLES
    last_mgr_op,            \* the last call on the ConfigManager of the process
    switched_to             \* the name of the last switch that found its service ("": none)

VARIABLES
    provider_created,       \* the last create_provider call: type and result
    provider_call           \* the last call_api call: provider, transport and result

VARIABLES
    invocation              \* the last monitor or ask invocation: inputs and results

VARIABLES
    wall_clock,             \* time.time() of the host, in seconds
    process_run,            \* the last --monitor process: inputs and results
    prev_process_run        \* the same for the process before it

VARIABLES
    sequence_clock,         \* time.time() in the process that lives on
    analyzer,               \* its ErrorAnalyzer: last_analyzed_command and _time
    accepted_at,            \* history: the time each key was last accepted
    last_failure            \* the last failure presented: key, time, verdict

VARIABLES
    gate_call               \* the last _should_analyze call and the hook's verdict on its command

VARIABLES
    recent_call             \* the last get_shell_history call: sources and result

VARIABLES
    intent_call             \* the last analyze_command_sequence call: list and result

VARIABLES
    snapshot                \* get_full_context: the probe it is at and how long it waits

VARIABLES
    session                 \* one shell session: the hook's state and what it delivers

dedupVars == <<now, last_analyzed_command, last_analyzed_time, last_call, prev_call>>
historyVars == <<max_history, command_history, appended>>

classifyVars == <<classify_input, pattern_result>>

directoryVars == <<dir_listing, directory_info>>

statusVars == <<probes, system_status>>
codecVars == <<stderr_file, hook_env, delivered>>
configVars == <<config_file, loaded>>
promptVars == <<last_prompt, prev_prompt>>
cliVars == <<cli_run>>
hookVars == <<bashrc, hook_installs, last_hook_op>>
managerVars == <<last_mgr_op, switched_to>>

providerVars == <<provider_created, provider_call>>
invocationVars == <<invocation>>
processVars == <<wall_clock, process_run, prev_process_run>>
sequenceVars == <<sequence_clock, analyzer, accepted_at, last_failure>>
gateVars == <<gate_call>>
recentVars == <<recent_call>>
intentVars == <<intent_call>>
snapshotVars == <<snapshot>>
shellVars == <<session>>
(***************************************************************************)
(* The variables a component's steps leave alone: those of every other     *)
(* component.  The prompt builder and the command line run inside a        *)
(* process that owns a configuration, so their steps may change the        *)
(* configuration variables too.                                            *)
(***************************************************************************)
vars == <<dedupVars, historyVars, classifyVars, directoryVars, statusVars,
          codecVars, configVars, promptVars, cliVars, hookVars,
          managerVars, providerVars, invocationVars, processVars,
          sequenceVars, gateVars, recentVars, intentVars, snapshotVars,
          shellVars>>

otherThanDedup == <<historyVars, classifyVars, directoryVars, statusVars,
    codecVars, configVars, promptVars, cliVars, hookVars, managerVars,
    providerVars, invocationVars, processVars, sequenceVars, gateVars,
    recentVars, intentVars, snapshotVars, shellVars>>

otherThanHistory == <<dedupVars, classifyVars, directoryVars, statusVars,
    codecVars, configVars, promptVars, cliVars, hookVars, managerVars,
    providerVars, invocationVars, processVars, sequenceVars, gateVars,
    recentVars, intentVars, snapshotVars, shellVars>>

otherThanClassify == <<dedupVars, historyVars, directoryVars, statusVars,
    codecVars, configVars, promptVars, cliVars, hookVars, managerVars,
    providerVars, invocationVars, processVars, sequenceVars, gateVars,
    recentVars, intentVars, snapshotVars, shellVars>>

otherThanDirectory == <<dedupVars, historyVars, classifyVars, statusVars,
    codecVars, configVars, promptVars, cliVars, hookVars, managerVars,
    providerVars, invocationVars, processVars, sequenceVars, gateVars,
    recentVars, intentVars, snapshotVars, shellVars>>

otherThanStatus == <<dedupVars, historyVars, classifyVars, directoryVars,
    codecVars, configVars, promptVars, cliVars, hookVars, managerVars,
    providerVars, invocationVars, processVars, sequenceVars, gateVars,
    recentVars, intentVars, snapshotVars, shellVars>>

otherThanCodec == <<dedupVars, historyVars, classifyVars, directoryVars,
    statusVars, configVars, promptVars, cliVars, hookVars, managerVars,
    providerVars, invocationVars, processVars, sequenceVars, gateVars,
    recentVars, intentVars, snapshotVars, shellVars>>

otherThanConfig == <<dedupVars, historyVars, classifyVars, directoryVars,
    statusVars, codecVars, promptVars, cliVars, hookVars, managerVars,
    providerVars, invocationVars, processVars, sequenceVars, gateVars,
    recentVars, intentVars, snapshotVars, shellVars>>

otherThanPrompt == <<dedupVars, historyVars, classifyVars, directoryVars,
    statusVars, codecVars, cliVars, hookVars, managerVars, providerVars,
    invocationVars, processVars, sequenceVars, gateVars, recentVars,
    intentVars, snapshotVars, shellVars>>

otherThanCli == <<dedupVars, historyVars, classifyVars, directoryVars,
    statusVars, codecVars, promptVars, hookVars, managerVars, providerVars,
    invocationVars, processVars, sequenceVars, gateVars, recentVars,
    intentVars, snapshotVars, shellVars>>

otherThanHook == <<dedupVars, historyVars, classifyVars, directoryVars,
    statusVars, codecVars, configVars, promptVars, cliVars, managerVars,
    providerVars, invocationVars, processVars, sequenceVars, gateVars,
    recentVars, intentVars, snapshotVars, shellVars>>

otherThanManager == <<dedupVars, historyVars, classifyVars, directoryVars,
    statusVars, codecVars, promptVars, cliVars, hookVars, providerVars,
    invocationVars, processVars, sequenceVars, gateVars, recentVars,
    intentVars, snapshotVars, shellVars>>

otherThanProvider == <<dedupVars, historyVars, classifyVars, directoryVars,
    statusVars, codecVars, configVars, promptVars, cliVars, hookVars,
    managerVars, invocationVars, processVars, sequenceVars, gateVars,
    recentVars, intentVars, snapshotVars, shellVars>>

otherThanInvocation == <<dedupVars, historyVars, classifyVars,
    directoryVars, statusVars, codecVars, configVars, promptVars, cliVars,
    hookVars, managerVars, providerVars, processVars, sequenceVars,
    gateVars, recentVars, intentVars, snapshotVars, shellVars>>

otherThanProcess == <<dedupVars, historyVars, classifyVars, directoryVars,
    statusVars, codecVars, configVars, promptVars, cliVars, hookVars,
    managerVars, providerVars, invocationVars, sequenceVars, gateVars,
    recentVars, intentVars, snapshotVars, shellVars>>

otherThanSequence == <<dedupVars, historyVars, classifyVars, directoryVars,
    statusVars, codecVars, configVars, promptVars, cliVars, hookVars,
    managerVars, providerVars, invocationVars, processVars, gateVars,
    recentVars, intentVars, snapshotVars, shellVars>>

otherThanGate == <<dedupVars, historyVars, classifyVars, directoryVars,
    statusVars, codecVars, configVars, promptVars, cliVars, hookVars,
    managerVars, providerVars, invocationVars, processVars, sequenceVars,
    recentVars, intentVars, snapshotVars, shellVars>>

otherThanRecent == <<dedupVars, historyVars, classifyVars, directoryVars,
    statusVars, codecVars, configVars, promptVars, cliVars, hookVars,
    managerVars, providerVars, invocationVars, processVars, sequenceVars,
    gateVars, intentVars, snapshotVars, shellVars>>

otherThanIntent == <<dedupVars, historyVars, classifyVars, directoryVars,
    statusVars, codecVars, configVars, promptVars, cliVars, hookVars,
    managerVars, providerVars, invocationVars, processVars, sequenceVars,
    gateVars, recentVars, snapshotVars, shellVars>>

otherThanSnapshot == <<dedupVars, historyVars, classifyVars, directoryVars,
    statusVars, codecVars, configVars, promptVars, cliVars, hookVars,
    managerVars, providerVars, invocationVars, processVars, sequenceVars,
    gateVars, recentVars, intentVars, shellVars>>

otherThanShell == <<dedupVars, historyVars, classifyVars, directoryVars,
    statusVars, codecVars, configVars, promptVars, cliVars, hookVars,
    managerVars, providerVars, invocationVars, processVars, sequenceVars,
    gateVars, recentVars, intentVars>>

(***************************************************************************)
(* CommandHistoryAnalyzer.should_analyze_command                           *)
(***************************************************************************)
should_analyze_command_no130(command, exit_code) ==
    ~ ( \/ StartsWith(command, W_return)
        \/ StartsWith(command, W_local)
        \/ StartsWith(command, W_set)
        \/ StartsWith(command, W_export)
        \/ (Contains(command, W_python3) /\ Contains(command, W_monitor))
        \/ Contains(command, W_ai_companion)
        \/ StartsWith(command, W_history) )

\* should_analyze_command with the filter read as (A or B) and C or D or E
should_analyze_command_grouped(command, exit_code) ==
    IF exit_code = SIGINT_EXIT
    THEN FALSE
    ELSE ~ ( \/ /\ \/ StartsWith(command, W_return)
                   \/ StartsWith(command, W_local)
                   \/ StartsWith(command, W_set)
                   \/ StartsWith(command, W_export)
                   \/ Contains(command, W_python3)
                /\ Contains(command, W_monitor)
             \/ Contains(command, W_ai_companion)
             \/ StartsWith(command, W_history) )

should_analyze_command(command, exit_code) ==
    IF exit_code = SIGINT_EXIT
    THEN FALSE
    ELSE ~ ( \/ StartsWith(command, W_return)
             \/ StartsWith(command, W_local)
             \/ StartsWith(command, W_set)
             \/ StartsWith(command, W_export)
             \/ (Contains(command, W_python3) /\ Contains(command, W_monitor))
             \/ Contains(command, W_ai_companion)
             \/ StartsWith(command, W_history) )

\* ContextAnalyzer.should_analyze_error delegates to the history analyzer.
should_analyze_error(command, exit_code) ==
    should_analyze_command(command, exit_code)

\* f"{command}_{exit_code}"
command_key(command, exit_code) == command \o <<"_">> \o IntToStr(exit_code)

(***************************************************************************)
(* ErrorAnalyzer._should_analyze                                           *)
(***************************************************************************)
should_analyze_window7(command, exit_code, current_time) ==
    IF /\ last_analyzed_command = command_key(command, exit_code)
       /\ current_time - last_analyzed_time < 7
    THEN FALSE
    ELSE should_analyze_error(command, exit_code)

should_analyze(command, exit_code, current_time) ==
    IF /\ last_analyzed_command = command_key(command, exit_code)
       /\ current_time - last_analyzed_time < DEDUP_WINDOW
    THEN FALSE
    ELSE should_analyze_error(command, exit_code)

(***************************************************************************)
(* ErrorAnalyzer.analyze_error.  fault is the step of the try block that   *)
(* raises: collecting the context, reading the active service while the    *)
(* prompt is built, constructing the provider, or none.  seconds is the    *)
(* time the try block takes.  The cache is written only after call_api     *)
(* has returned, with the time read then.                                  *)
(***************************************************************************)
Faults == {"none", "context", "config", "provider"}

analyze_error(command, exit_code, fault, seconds) ==
    LET accepted == should_analyze(command, exit_code, now)
        base == [command |-> command, exit_code |-> exit_code, at |-> now,
                 prev_key |-> last_analyzed_command,
                 prev_time |-> last_analyzed_time,
                 accepted |-> accepted]
    IN  IF ~accepted
        THEN /\ last_call' = base @@ [result |-> "None", backend |-> FALSE]
             /\ UNCHANGED <<now, last_analyzed_command, last_analyzed_time>>
        ELSE /\ now' = now + seconds
             /\ IF fault = "none"
                THEN /\ last_analyzed_command' = command_key(command, exit_code)
                     /\ last_analyzed_time' = now + seconds
                     /\ last_call' = base @@ [result |-> "suggestion", backend |-> TRUE]
                ELSE /\ UNCHANGED <<last_analyzed_command, last_analyzed_time>>
                     /\ last_call' = base @@ [result |-> "error", backend |-> FALSE]

AnalyzeError ==
    /\ \E command \in DedupCommands, exit_code \in DedupExitCodes,
          fault \in Faults, seconds \in 0..MaxCallSeconds :
           /\ now + seconds <= MaxTime
           /\ analyze_error(command, exit_code, fault, seconds)
           /\ prev_call' = [at |-> last_call.at, accepted |-> last_call.accepted,
                            command |-> last_call.command,
                            exit_code |-> last_call.exit_code,
                            prev_key |-> last_call.prev_key,
                            prev_time |-> last_call.prev_time]
    /\ UNCHANGED otherThanDedup

\* Time passes between two calls.
Tick ==
    /\ now < MaxTime
    /\ now' = now + 1
    /\ UNCHANGED <<last_analyzed_command, last_analyzed_time, last_call, prev_call>>
    /\ UNCHANGED otherThanDedup

NoCall == [command |-> <<>>, exit_code |-> 0, at |-> 0, prev_key |-> NoKey,
           prev_time |-> 0, accepted |-> FALSE, result |-> "None",
           backend |-> FALSE]

\* ErrorAnalyzer.__init__
DedupInit ==
    /\ now = 0
    /\ last_analyzed_command = NoKey
    /\ last_analyzed_time = 0
    /\ last_call = NoCall
    /\ prev_call = [at |-> 0, accepted |-> FALSE, command |-> <<>>,
                    exit_code |-> 0, prev_key |-> NoKey, prev_time |-> 0]

DedupNext == AnalyzeError \/ Tick

(***************************************************************************)
(* CommandHistoryAnalyzer.add_command.  An event is identified by its      *)
(* ordinal number in the sequence of appended events.  Python evaluates    *)
(* -self.max_history//2 as (-max_history)//2, a floor division.            *)
(***************************************************************************)
MAX_HISTORY_DEFAULT == 100

\* Bound of the history specification: number of add_command calls.
MaxAppends == 103

\* seq[-k:] for k > 0
LastK(seq, k) ==
    IF k >= Len(seq) THEN seq ELSE SubSeq(seq, Len(seq) - k + 1, Len(seq))

\* seq[i:] for any integer i
SliceFrom(seq, i) ==
    IF i < 0 THEN LastK(seq, -i)
    ELSE IF i >= Len(seq) THEN <<>> ELSE SubSeq(seq, i + 1, Len(seq))

add_command_trim_at_cap(history, cap, command_info) ==
    LET appendedHistory == Append(history, command_info)
    IN  IF Len(appendedHistory) >= cap
        THEN SliceFrom(appendedHistory, (-cap) \div 2)
        ELSE appendedHistory

add_command(history, cap, command_info) ==
    LET appendedHistory == Append(history, command_info)
    IN  IF Len(appendedHistory) > cap
        THEN SliceFrom(appendedHistory, (-cap) \div 2)
        ELSE appendedHistory

AddCommand ==
    /\ appended < MaxAppends
    /\ appended' = appended + 1
    /\ command_history' = add_command(command_history, max_history, appended + 1)
    /\ UNCHANGED max_history
    /\ UNCHANGED otherThanHistory

\* CommandHistoryAnalyzer.__init__, with the default cap or a small odd one
HistoryInit ==
    /\ max_history \in {MAX_HISTORY_DEFAULT, 5}
    /\ command_history = <<>>
    /\ appended = 0

HistoryIdle ==
    /\ max_history = MAX_HISTORY_DEFAULT
    /\ command_history = <<>>
    /\ appended = 0

HistoryNext == AddCommand

(***************************************************************************)
(* CommandHistoryAnalyzer.analyze_command_patterns.  The category names    *)
(* of the source are Chinese strings; they are written here in English,    *)
(* in the order of the source's table:                                     *)
(*   file_ops = 文件操作, text_processing = 文本处理,                      *)
(*   system_admin = 系统管理, network = 网络操作, permissions = 权限管理,  *)
(*   dev_tools = 开发工具, containers = 容器技术, archive = 压缩解压,      *)
(*   package_mgmt = 包管理, process_monitor = 进程监控.                    *)
(***************************************************************************)
command_patterns == <<
    [name |-> "file_ops",
     programs |-> <<
          <<"l", "s">>,
          <<"c", "d">>,
          <<"p", "w", "d">>,
          <<"m", "k", "d", "i", "r">>,
          <<"r", "m", "d", "i", "r">>,
          <<"c", "p">>,
          <<"m", "v">>,
          <<"r", "m">>,
          <<"f", "i", "n", "d">>,
          <<"l", "o", "c", "a", "t", "e">>>>],
    [name |-> "text_processing",
     programs |-> <<
          <<"c", "a", "t">>,
          <<"l", "e", "s", "s">>,
          <<"m", "o", "r", "e">>,
          <<"h", "e", "a", "d">>,
          <<"t", "a", "i", "l">>,
          <<"g", "r", "e", "p">>,
          <<"s", "e", "d">>,
          <<"a", "w", "k">>,
          <<"s", "o", "r", "t">>,
          <<"u", "n", "i", "q">>>>],
    [name |-> "system_admin",
     programs |-> <<
          <<"p", "s">>,
          <<"t", "o", "p">>,
          <<"h", "t", "o", "p">>,
          <<"k", "i", "l", "l">>,
          <<"s", "y", "s", "t", "e", "m", "c", "t", "l">>,
          <<"s", "e", "r", "v", "i", "c", "e">>,
          <<"m", "o", "u", "n", "t">>,
          <<"u", "m", "o", "u", "n", "t">>>>],
    [name |-> "network",
     programs |-> <<
          <<"p", "i", "n", "g">>,
          <<"c", "u", "r", "l">>,
          <<"w", "g", "e", "t">>,
          <<"s", "s", "h">>,
          <<"s", "c", "p">>,
          <<"r", "s", "y", "n", "c">>,
          <<"n", "e", "t", "s", "t", "a", "t">>,
          <<"s", "s">>>>],
    [name |-> "permissions",
     programs |-> <<
          <<"c", "h", "m", "o", "d">>,
          <<"c", "h", "o", "w", "n">>,
          <<"s", "u", "d", "o">>,
          <<"s", "u">>,
          <<"w", "h", "o", "a", "m", "i">>,
          <<"g", "r", "o", "u", "p", "s">>>>],
    [name |-> "dev_tools",
     programs |-> <<
          <<"g", "i", "t">>,
          <<"n", "p", "m">>,
          <<"p", "i", "p">>,
          <<"p", "y", "t", "h", "o", "n">>,
          <<"n", "o", "d", "e">>,
          <<"m", "a", "k", "e">>,
          <<"g", "c", "c">>,
          <<"v", "i", "m">>,
          <<"n", "a", "n", "o">>>>],
    [name |-> "containers",
     programs |-> <<
          <<"d", "o", "c", "k", "e", "r">>,
          <<"d", "o", "c", "k", "e", "r", "-", "c", "o", "m", "p", "o", "s", "e">>,
          <<"k", "u", "b", "e", "c", "t", "l">>,
          <<"p", "o", "d", "m", "a", "n">>>>],
    [name |-> "archive",
     programs |-> <<
          <<"t", "a", "r">>,
          <<"z", "i", "p">>,
          <<"u", "n", "z", "i", "p">>,
          <<"g", "z", "i", "p">>,
          <<"g", "u", "n", "z", "i", "p">>>>],
    [name |-> "package_mgmt",
     programs |-> <<
          <<"a", "p", "t">>,
          <<"y", "u", "m">>,
          <<"d", "n", "f">>,
          <<"b", "r", "e", "w">>,
          <<"s", "n", "a", "p">>>>],
    [name |-> "process_monitor",
     programs |-> <<
          <<"p", "s">>,
          <<"p", "g", "r", "e", "p">>,
          <<"p", "k", "i", "l", "l">>,
          <<"j", "o", "b", "s">>,
          <<"n", "o", "h", "u", "p">>,
          <<"s", "c", "r", "e", "e", "n">>,
          <<"t", "m", "u", "x">>>>] >>


cmd_git_add == <<"g", "i", "t", " ", "a", "d", "d", " ", ".">>
cmd_git_commit == <<"g", "i", "t", " ", "c", "o", "m", "m", "i", "t", " ", "-", "m", " ", "x">>
cmd_npm_install == <<"n", "p", "m", " ", "i", "n", "s", "t", "a", "l", "l">>
cmd_ps_aux == <<"p", "s", " ", "a", "u", "x">>
cmd_lsof == <<"l", "s", "o", "f">>
cmd_blank == <<" ">>

\* The commands given to the classifier: the three of the documented
\* example, one whose program is listed in two categories (ps), one that
\* only has a listed program as a prefix (lsof), one unlisted (foo) and one
\* without any word.
ClassifyCommands ==
    {cmd_git_add, cmd_git_commit, cmd_npm_install, cmd_ps_aux, cmd_lsof,
     cmd_foo, cmd_blank}

\* Bound of the classifier specification: length of the command list.
MaxCommands == 3

RECURSIVE SkipSpaces(_)
SkipSpaces(s) ==
    IF Len(s) > 0 /\ s[1] = " " THEN SkipSpaces(Tail(s)) ELSE s

RECURSIVE TakeWord(_)
TakeWord(s) ==
    IF Len(s) = 0 \/ s[1] = " " THEN <<>> ELSE <<s[1]>> \o TakeWord(Tail(s))

\* command.split()[0] if command.split() else ""
first_word(command) == TakeWord(SkipSpaces(command))

\* any(cmd_name.startswith(pc) for pc in pattern_commands)
pattern_matches(cmd_name, k) ==
    \E j \in 1..Len(command_patterns[k].programs) :
        StartsWith(cmd_name, command_patterns[k].programs[j])

RECURSIVE scan_patterns_no_break(_, _)
scan_patterns_no_break(cmd_name, k) ==
    IF k > Len(command_patterns) THEN <<>>
    ELSE IF pattern_matches(cmd_name, k)
         THEN <<k>> \o scan_patterns_no_break(cmd_name, k + 1)
         ELSE scan_patterns_no_break(cmd_name, k + 1)

\* The inner loop for one command: the indices of the categories whose
\* count is incremented, scanning the table from index k.  The loop
\* breaks at the first match.
RECURSIVE scan_patterns(_, _)
scan_patterns(cmd_name, k) ==
    IF k > Len(command_patterns) THEN <<>>
    ELSE IF pattern_matches(cmd_name, k) THEN <<k>>
    ELSE scan_patterns(cmd_name, k + 1)

\* pattern_counts[name] += 1 on a dict kept in insertion order: a sequence
\* of [name, count] records.
RECURSIVE increment(_, _)
increment(counts, name) ==
    IF Len(counts) = 0 THEN <<[name |-> name, count |-> 1]>>
    ELSE IF counts[1].name = name
         THEN <<[name |-> name, count |-> counts[1].count + 1]>> \o Tail(counts)
         ELSE <<counts[1]>> \o increment(Tail(counts), name)

RECURSIVE increment_all(_, _)
increment_all(counts, ks) ==
    IF Len(ks) = 0 THEN counts
    ELSE increment_all(increment(counts, command_patterns[ks[1]].name), Tail(ks))

\* The outer loop over the commands.
RECURSIVE count_patterns(_, _)
count_patterns(counts, commands) ==
    IF Len(commands) = 0 THEN counts
    ELSE count_patterns(
             increment_all(counts, scan_patterns(first_word(commands[1]), 1)),
             Tail(commands))

\* sorted(items, key=count, reverse=True): stable, equal counts keep their
\* insertion order.
RECURSIVE insert_sorted(_, _)
insert_sorted(sorted, item) ==
    IF Len(sorted) = 0 THEN <<item>>
    ELSE IF sorted[1].count >= item.count
         THEN <<sorted[1]>> \o insert_sorted(Tail(sorted), item)
         ELSE <<item>> \o sorted

RECURSIVE sort_by_count(_, _)
sort_by_count(sorted, items) ==
    IF Len(items) = 0 THEN sorted
    ELSE sort_by_count(insert_sorted(sorted, items[1]), Tail(items))

analyze_command_patterns(commands) ==
    IF Len(commands) = 0 THEN <<>>
    ELSE sort_by_count(<<>>, count_patterns(<<>>, commands))

NotClassified == <<[name |-> "not classified", count |-> 0]>>

ClassifyActivity ==
    /\ pattern_result = NotClassified
    /\ pattern_result' = analyze_command_patterns(classify_input)
    /\ UNCHANGED classify_input
    /\ UNCHANGED otherThanClassify

ClassifyInit ==
    /\ classify_input \in SeqsUpTo(ClassifyCommands, MaxCommands)
    /\ pattern_result = NotClassified

ClassifyIdle ==
    /\ classify_input = <<>>
    /\ pattern_result = NotClassified

ClassifyNext == ClassifyActivity

(***************************************************************************)
(* SystemInfoCollector.get_directory_info and _identify_project_type.      *)
(* A directory listing is the set of entry names os.listdir returns; ok    *)
(* is false when os.listdir raises.                                        *)
(***************************************************************************)
key_indicators_node_first == <<
    [type |-> "node", indicators |-> <<"package.json", "node_modules">>],
    [type |-> "python",
     indicators |-> <<"requirements.txt", "setup.py", "pyproject.toml", "main.py">>],
    [type |-> "web", indicators |-> <<"index.html", "index.php">>],
    [type |-> "docker", indicators |-> <<"Dockerfile", "docker-compose.yml">>],
    [type |-> "git", indicators |-> <<".git">>],
    [type |-> "config", indicators |-> <<"nginx.conf", "apache.conf", ".env">>] >>

key_indicators == <<
    [type |-> "python",
     indicators |-> <<"requirements.txt", "setup.py", "pyproject.toml", "main.py">>],
    [type |-> "node", indicators |-> <<"package.json", "node_modules">>],
    [type |-> "web", indicators |-> <<"index.html", "index.php">>],
    [type |-> "docker", indicators |-> <<"Dockerfile", "docker-compose.yml">>],
    [type |-> "git", indicators |-> <<".git">>],
    [type |-> "config", indicators |-> <<"nginx.conf", "apache.conf", ".env">>] >>

\* The entry names a modelled directory can hold: every indicator name and
\* two names that indicate nothing.
DirNames ==
    {"requirements.txt", "setup.py", "pyproject.toml", "main.py",
     "package.json", "node_modules", "index.html", "index.php",
     "Dockerfile", "docker-compose.yml", ".git", "nginx.conf", "apache.conf",
     ".env", "README.md", ".cache"}

\* Bound of the directory specification: number of entries of a directory.
MaxFiles == 3

\* f.startswith('.') on the names of DirNames
is_hidden(f) == f \in {".git", ".env", ".cache"}

\* os.path.isfile on the names of DirNames: these entries are directories
is_file(f) == f \notin {"node_modules", ".git", ".cache"}

\* os.path.splitext(file)[1].lower() on the names of DirNames
file_ext(f) ==
    CASE f \in {"requirements.txt"} -> ".txt"
      [] f \in {"setup.py", "main.py"} -> ".py"
      [] f = "pyproject.toml" -> ".toml"
      [] f = "package.json" -> ".json"
      [] f = "index.html" -> ".html"
      [] f = "index.php" -> ".php"
      [] f = "docker-compose.yml" -> ".yml"
      [] f \in {"nginx.conf", "apache.conf"} -> ".conf"
      [] f = "README.md" -> ".md"
      [] OTHER -> ""

\* [f for f in indicators if f in files]
RECURSIVE found_indicators(_, _)
found_indicators(indicators, files) ==
    IF Len(indicators) = 0 THEN <<>>
    ELSE IF indicators[1] \in files
         THEN <<indicators[1]>> \o found_indicators(Tail(indicators), files)
         ELSE found_indicators(Tail(indicators), files)

\* The loop of _identify_project_type from table index k: the returned
\* type and the names appended to key_files.
RECURSIVE identify_project_type(_, _)
identify_project_type(files, k) ==
    IF k > Len(key_indicators)
    THEN [project_type |-> "unknown", key_files |-> <<>>]
    ELSE LET found == found_indicators(key_indicators[k].indicators, files)
         IN  IF Len(found) > 0
             THEN [project_type |-> key_indicators[k].type, key_files |-> found]
             ELSE identify_project_type(files, k + 1)

get_directory_info(ok, listing) ==
    IF ~ok
    THEN [file_count |-> 0, has_hidden_files |-> FALSE, file_types |-> <<>>,
          project_type |-> "unknown", key_files |-> <<>>]
    ELSE LET identified == identify_project_type(listing, 1)
             exts == {file_ext(f) : f \in {g \in listing : is_file(g)}}
         IN  [file_count |-> Cardinality(listing),
              has_hidden_files |-> \E f \in listing : is_hidden(f),
              file_types |-> [e \in exts |->
                  Cardinality({f \in listing : is_file(f) /\ file_ext(f) = e})],
              project_type |-> identified.project_type,
              key_files |-> identified.key_files]

NotQueried ==
    [file_count |-> -1, has_hidden_files |-> FALSE, file_types |-> <<>>,
     project_type |-> "not queried", key_files |-> <<>>]

GetDirectoryInfo ==
    /\ directory_info = NotQueried
    /\ directory_info' = get_directory_info(dir_listing.ok, dir_listing.files)
    /\ UNCHANGED dir_listing
    /\ UNCHANGED otherThanDirectory

DirectoryInit ==
    /\ dir_listing \in
           [ok : BOOLEAN,
            files : {files \in SUBSET DirNames : Cardinality(files) <= MaxFiles}]
    /\ directory_info = NotQueried

DirectoryIdle ==
    /\ dir_listing = [ok |-> TRUE, files |-> {}]
    /\ directory_info = NotQueried

DirectoryNext == GetDirectoryInfo

(***************************************************************************)
(* SystemInfoCollector.get_system_status and its four probes.  Sizes are   *)
(* whole GiB and percentages whole numbers (the source rounds to one       *)
(* decimal).  A probe helper returns [raised, value]: raised tells that    *)
(* an exception left the helper.                                           *)
(***************************************************************************)
\* Bound of the status specification: the largest memory or disk size.
MaxGB == 2

\* /proc/meminfo: unreadable or without the two lines, or the two counters
MemoryProbes ==
    {[ok |-> FALSE, total |-> 0, available |-> 0]} \cup
    {[ok |-> TRUE, total |-> t, available |-> a] :
        t \in 0..MaxGB, a \in 0..MaxGB}

\* shutil.disk_usage('/'): raises, or (total, used, free)
DiskProbes ==
    {[ok |-> FALSE, total |-> 0, used |-> 0]} \cup
    {[ok |-> TRUE, total |-> t, used |-> u] : t \in 0..MaxGB, u \in 0..MaxGB}

\* top -bn1: raises (missing binary, timeout after 5 seconds), exits
\* non-zero, prints no Cpu(s) line, prints an idle field that is no number,
\* or prints the idle percentage
TopProbes ==
    {[outcome |-> o, idle |-> 0] : o \in {"raise", "nonzero", "no_line", "bad_float"}}
    \cup {[outcome |-> "idle", idle |-> i] : i \in {0, 40, 100}}

\* ps aux: raises, exits non-zero, or prints a header and lines - 1 processes
PsProbes ==
    {[outcome |-> o, lines |-> 0] : o \in {"raise", "nonzero"}}
    \cup {[outcome |-> "lines", lines |-> n] : n \in {1, 4}}

ZeroMemory == [usage_percent |-> 0, total_gb |-> 0, available_gb |-> 0]
ZeroDisk == [usage_percent |-> 0, total_gb |-> 0, free_gb |-> 0]

\* _get_memory_info: a zero MemTotal divides by zero inside the try block
get_memory_info(mem) ==
    IF ~mem.ok \/ mem.total = 0
    THEN [raised |-> FALSE, value |-> ZeroMemory]
    ELSE [raised |-> FALSE,
          value |-> [usage_percent |-> ((mem.total - mem.available) * 100) \div mem.total,
                     total_gb |-> mem.total,
                     available_gb |-> mem.available]]

\* _get_disk_info
get_disk_info(disk) ==
    IF ~disk.ok \/ disk.total = 0
    THEN [raised |-> FALSE, value |-> ZeroDisk]
    ELSE [raised |-> FALSE,
          value |-> [usage_percent |-> (disk.used * 100) \div disk.total,
                     total_gb |-> disk.total,
                     free_gb |-> disk.total - disk.used]]

get_cpu_percent_raising(top) ==
    IF top.outcome = "idle"
    THEN [raised |-> FALSE, value |-> 100 - top.idle]
    ELSE IF top.outcome \in {"raise", "bad_float"}
         THEN [raised |-> TRUE, value |-> 0]
         ELSE [raised |-> FALSE, value |-> 0]

\* _get_cpu_percent
get_cpu_percent(top) ==
    IF top.outcome = "idle"
    THEN [raised |-> FALSE, value |-> 100 - top.idle]
    ELSE [raised |-> FALSE, value |-> 0]

\* _get_process_count
get_process_count(ps) ==
    IF ps.outcome = "lines"
    THEN [raised |-> FALSE, value |-> ps.lines - 1]
    ELSE [raised |-> FALSE, value |-> 0]

\* get_system_status: an exception out of a helper is caught by the outer
\* handler, which returns SystemStatus(0, 0, 0, 0, 0, 0, 0, 0)
get_system_status(mem, disk, top, ps) ==
    LET memory_info == get_memory_info(mem)
        disk_info == get_disk_info(disk)
        cpu_percent == get_cpu_percent(top)
        processes == get_process_count(ps)
    IN  IF memory_info.raised \/ disk_info.raised \/ cpu_percent.raised
           \/ processes.raised
        THEN [raised |-> FALSE,
              cpu_percent |-> 0, memory_percent |-> 0, memory_total_gb |-> 0,
              memory_available_gb |-> 0, disk_percent |-> 0,
              disk_total_gb |-> 0, disk_free_gb |-> 0, processes |-> 0]
        ELSE [raised |-> FALSE,
              cpu_percent |-> cpu_percent.value,
              memory_percent |-> memory_info.value.usage_percent,
              memory_total_gb |-> memory_info.value.total_gb,
              memory_available_gb |-> memory_info.value.available_gb,
              disk_percent |-> disk_info.value.usage_percent,
              disk_total_gb |-> disk_info.value.total_gb,
              disk_free_gb |-> disk_info.value.free_gb,
              processes |-> processes.value]

NoStatus ==
    [raised |-> FALSE,
     cpu_percent |-> -1, memory_percent |-> -1, memory_total_gb |-> -1,
     memory_available_gb |-> -1, disk_percent |-> -1,
     disk_total_gb |-> -1, disk_free_gb |-> -1, processes |-> -1]

GetSystemStatus ==
    /\ system_status = NoStatus
    /\ system_status' = get_system_status(probes.mem, probes.disk, probes.top, probes.ps)
    /\ UNCHANGED probes
    /\ UNCHANGED otherThanStatus

StatusInit ==
    /\ probes \in [mem : {m \in MemoryProbes : m.available <= m.total},
                   disk : {d \in DiskProbes : d.used <= d.total},
                   top : TopProbes, ps : PsProbes]
    /\ system_status = NoStatus

StatusIdle ==
    /\ probes = [mem |-> [ok |-> FALSE, total |-> 0, available |-> 0],
                 disk |-> [ok |-> FALSE, total |-> 0, used |-> 0],
                 top |-> [outcome |-> "raise", idle |-> 0],
                 ps |-> [outcome |-> "raise", lines |-> 0]]
    /\ system_status = NoStatus

StatusNext == GetSystemStatus

(***************************************************************************)
(* The stderr transport: the PROMPT_COMMAND hook captures and encodes the  *)
(* text (shell code generated by ShellIntegrationManager._install_to_      *)
(* bashrc), AICompanion._decode_stderr decodes it.  Texts are sequences of *)
(* code points, byte strings sequences of numbers 0..255.                  *)
(***************************************************************************)
\* The code points of the modelled stderr texts: NUL, newline, "A", "é"
StderrAlphabet == {0, 10, 65, 233}

\* Bound of the transport specification: length of the stderr text.
MaxStderrLen == 3

NEWLINE == 10
PAD == 61

\* str.encode('utf-8') for code points below 2048: the bytes of one code
\* point, and the bytes of text[lo..hi] (the range is halved so that the
\* evaluation stays shallow)
utf8_encode_char(c) ==
    IF c < 128 THEN <<c>>
    ELSE <<192 + (c \div 64), 128 + (c % 64)>>

RECURSIVE utf8_encode_range(_, _, _)
utf8_encode_range(text, lo, hi) ==
    IF lo > hi THEN <<>>
    ELSE IF lo = hi THEN utf8_encode_char(text[lo])
    ELSE utf8_encode_range(text, lo, (lo + hi) \div 2)
             \o utf8_encode_range(text, ((lo + hi) \div 2) + 1, hi)

utf8_encode(text) == utf8_encode_range(text, 1, Len(text))

\* bytes.decode('utf-8'), one- and two-byte sequences, one byte at a time:
\* lead is the first byte of an unfinished two-byte sequence (0: none), ok
\* is false where Python raises UnicodeDecodeError
utf8_decode_step(st, byte) ==
    IF ~st.ok THEN st
    ELSE IF st.lead # 0
         THEN IF byte \in 128..191
              THEN [ok |-> TRUE, lead |-> 0,
                    text |-> Append(st.text, (st.lead - 192) * 64 + (byte - 128))]
              ELSE [st EXCEPT !.ok = FALSE]
    ELSE IF byte < 128
         THEN [st EXCEPT !.text = Append(st.text, byte)]
    ELSE IF byte \in 194..223
         THEN [st EXCEPT !.lead = byte]
    ELSE [st EXCEPT !.ok = FALSE]

RECURSIVE utf8_decode_range(_, _, _, _)
utf8_decode_range(bytes, lo, hi, st) ==
    IF lo > hi THEN st
    ELSE IF lo = hi THEN utf8_decode_step(st, bytes[lo])
    ELSE LET left == utf8_decode_range(bytes, lo, (lo + hi) \div 2, st)
         IN  IF ~left.ok THEN left
             ELSE utf8_decode_range(bytes, ((lo + hi) \div 2) + 1, hi, left)

utf8_decode(bytes) ==
    LET st == utf8_decode_range(bytes, 1, Len(bytes),
                                [ok |-> TRUE, lead |-> 0, text |-> <<>>])
    IN  [ok |-> st.ok /\ st.lead = 0, text |-> st.text]

\* The base64 alphabet: value 0..63 to character
b64_char(v) ==
    IF v < 26 THEN 65 + v
    ELSE IF v < 52 THEN 97 + (v - 26)
    ELSE IF v < 62 THEN 48 + (v - 52)
    ELSE IF v = 62 THEN 43 ELSE 47

\* character to value, 64 for a character outside the alphabet
b64_value(c) ==
    IF c \in 65..90 THEN c - 65
    ELSE IF c \in 97..122 THEN c - 97 + 26
    ELSE IF c \in 48..57 THEN c - 48 + 52
    ELSE IF c = 43 THEN 62
    ELSE IF c = 47 THEN 63 ELSE 64

\* base64 -w 0: the four characters of the group of up to three bytes
\* that starts at position s, and the characters of the groups lo..hi
b64encode_group(b, s) ==
    IF Len(b) = s
    THEN <<b64_char(b[s] \div 4), b64_char((b[s] % 4) * 16), PAD, PAD>>
    ELSE IF Len(b) = s + 1
         THEN <<b64_char(b[s] \div 4),
                b64_char((b[s] % 4) * 16 + (b[s + 1] \div 16)),
                b64_char((b[s + 1] % 16) * 4), PAD>>
    ELSE <<b64_char(b[s] \div 4),
           b64_char((b[s] % 4) * 16 + (b[s + 1] \div 16)),
           b64_char((b[s + 1] % 16) * 4 + (b[s + 2] \div 64)),
           b64_char(b[s + 2] % 64)>>

RECURSIVE b64encode_range(_, _, _)
b64encode_range(b, lo, hi) ==
    IF lo > hi THEN <<>>
    ELSE IF lo = hi THEN b64encode_group(b, 3 * (lo - 1) + 1)
    ELSE b64encode_range(b, lo, (lo + hi) \div 2)
             \o b64encode_range(b, ((lo + hi) \div 2) + 1, hi)

b64encode(b) == b64encode_range(b, 1, (Len(b) + 2) \div 3)

\* binascii.a2b_base64 in its default non-strict mode, one character at a
\* time: quad holds the values of the current group, pads the padding
\* characters seen since the last data character, out the bytes produced
\* so far, done that the padding has completed a group (the rest of the
\* input is ignored).
a2b_base64_step(st, c) ==
    IF st.done THEN st
    ELSE IF c = PAD
         THEN IF Len(st.quad) >= 2 /\ Len(st.quad) + st.pads + 1 >= 4
              THEN [st EXCEPT !.done = TRUE]
              ELSE [st EXCEPT !.pads = IF Len(st.quad) >= 2 THEN st.pads + 1
                                       ELSE st.pads]
    ELSE IF b64_value(c) = 64 THEN st
    ELSE LET v == b64_value(c)
             quad == st.quad
         IN  IF Len(quad) = 0
             THEN [st EXCEPT !.quad = <<v>>, !.pads = 0]
             ELSE IF Len(quad) = 1
             THEN [st EXCEPT !.quad = <<quad[1], v>>, !.pads = 0,
                      !.out = Append(st.out, quad[1] * 4 + (v \div 16))]
             ELSE IF Len(quad) = 2
             THEN [st EXCEPT !.quad = <<quad[1], quad[2], v>>, !.pads = 0,
                      !.out = Append(st.out, (quad[2] % 16) * 16 + (v \div 4))]
             ELSE [st EXCEPT !.quad = <<>>, !.pads = 0,
                      !.out = Append(st.out, (quad[3] % 4) * 64 + v)]

RECURSIVE a2b_base64_range(_, _, _, _)
a2b_base64_range(chars, lo, hi, st) ==
    IF lo > hi THEN st
    ELSE IF lo = hi THEN a2b_base64_step(st, chars[lo])
    ELSE LET left == a2b_base64_range(chars, lo, (lo + hi) \div 2, st)
         IN  IF left.done THEN left
             ELSE a2b_base64_range(chars, ((lo + hi) \div 2) + 1, hi, left)

a2b_base64(chars) ==
    LET st == a2b_base64_range(chars, 1, Len(chars),
                  [quad |-> <<>>, pads |-> 0, out |-> <<>>, done |-> FALSE])
    IN  [ok |-> st.done \/ Len(st.quad) = 0, bytes |-> st.out]

\* base64.b64decode on a str: a non-ASCII character raises ValueError
b64decode(chars) ==
    IF \E i \in 1..Len(chars) : chars[i] >= 128
    THEN [ok |-> FALSE, bytes |-> <<>>]
    ELSE a2b_base64(chars)

\* AICompanion._decode_stderr
decode_stderr(stderr_content) ==
    IF Len(stderr_content) = 0 THEN <<>>
    ELSE LET decoded == b64decode(stderr_content)
         IN  IF decoded.ok /\ utf8_decode(decoded.bytes).ok
             THEN utf8_decode(decoded.bytes).text
             ELSE stderr_content

\* What bash keeps of the output of a command substitution $(...): NUL
\* bytes are dropped and the trailing newlines removed.
RECURSIVE drop_nul_range(_, _, _)
drop_nul_range(bytes, lo, hi) ==
    IF lo > hi THEN <<>>
    ELSE IF lo = hi THEN IF bytes[lo] = 0 THEN <<>> ELSE <<bytes[lo]>>
    ELSE drop_nul_range(bytes, lo, (lo + hi) \div 2)
             \o drop_nul_range(bytes, ((lo + hi) \div 2) + 1, hi)

drop_nul(bytes) == drop_nul_range(bytes, 1, Len(bytes))

RECURSIVE strip_trailing_newlines(_)
strip_trailing_newlines(bytes) ==
    IF Len(bytes) > 0 /\ bytes[Len(bytes)] = NEWLINE
    THEN strip_trailing_newlines(SubSeq(bytes, 1, Len(bytes) - 1))
    ELSE bytes

command_substitution(bytes) == strip_trailing_newlines(drop_nul(bytes))

\* echo "$x": the bytes of x and a newline
echo(bytes) == Append(bytes, NEWLINE)

\* "bash: foo: command not found" and "Command failed with exit code 1", the
\* texts the hook makes up for the command foo with exit code 1 when it has
\* no captured text
MSG_NOT_FOUND ==
    <<98, 97, 115, 104, 58, 32, 102, 111, 111, 58, 32, 99, 111, 109, 109,
      97, 110, 100, 32, 110, 111, 116, 32, 102, 111, 117, 110, 100>>

MSG_FAILED ==
    <<67, 111, 109, 109, 97, 110, 100, 32, 102, 97, 105, 108, 101, 100, 32,
      119, 105, 116, 104, 32, 101, 120, 105, 116, 32, 99, 111, 100, 101,
      32, 49>>

\* _ai_companion_prompt_command, the stderr part (method 1, method 2 and
\* the encoding), for the failed command foo with exit code 1: file is the
\* content of $AI_STDERR_FILE, base64_ok tells that the base64 program
\* runs, cmd_found that command -v resolves the program name.
hook_stderr(file, base64_ok, cmd_found) ==
    LET captured == IF Len(file) > 0 THEN command_substitution(file) ELSE <<>>
        stderr_output ==
            IF Len(captured) > 0 THEN captured
            ELSE IF ~cmd_found THEN MSG_NOT_FOUND ELSE MSG_FAILED
        stderr_encoded ==
            IF base64_ok
            THEN command_substitution(b64encode(echo(stderr_output)))
            ELSE command_substitution(echo(stderr_output))
    IN  [stderr_output |-> stderr_output,
         used_base64 |-> base64_ok,
         stderr_encoded |-> stderr_encoded]

\* sys.argv: the bytes of an argument become a str (UTF-8)
argv_str(bytes) == utf8_decode(bytes).text

NotDelivered ==
    [stderr_output |-> <<>>, used_base64 |-> FALSE, stderr_encoded |-> <<>>,
     decoded_stderr |-> <<>>, done |-> FALSE]

\* The hook runs after the failed command and starts the monitor entry
\* point, which decodes its third argument.
DeliverStderr ==
    /\ ~delivered.done
    /\ LET sent == hook_stderr(utf8_encode(stderr_file), hook_env.base64_ok,
                               hook_env.cmd_found)
       IN  delivered' =
               [stderr_output |-> sent.stderr_output,
                used_base64 |-> sent.used_base64,
                stderr_encoded |-> sent.stderr_encoded,
                decoded_stderr |-> decode_stderr(argv_str(sent.stderr_encoded)),
                done |-> TRUE]
    /\ UNCHANGED <<stderr_file, hook_env>>
    /\ UNCHANGED otherThanCodec

CodecInit ==
    /\ stderr_file \in SeqsUpTo(StderrAlphabet, MaxStderrLen)
    /\ hook_env \in [base64_ok : BOOLEAN, cmd_found : BOOLEAN]
    /\ delivered = NotDelivered

CodecIdle ==
    /\ stderr_file = <<>>
    /\ hook_env = [base64_ok |-> TRUE, cmd_found |-> TRUE]
    /\ delivered = NotDelivered

CodecNext == DeliverStderr

(***************************************************************************)
(* ConfigManager and AIServiceConfig.  A service dict is a record; its     *)
(* field keys tells whether the dict has exactly the dataclass's keys      *)
(* ("ok"), is empty ("empty") or has a missing or unknown key ("bad").     *)
(* The value under ai_services is a dict of service dicts (is_dict) or     *)
(* something else.  The empty name "" stands for an empty or null          *)
(* active_ai_service.                                                      *)
(***************************************************************************)
DEFAULT_TIMEOUT == 30

SVC_DEFAULT ==
    [keys |-> "ok", type |-> "openai",
     base_url |-> "https://api.deepbricks.ai/v1/chat/completions",
     model |-> "gpt-4o-mini", api_key |-> "sk-default", timeout |-> DEFAULT_TIMEOUT]

\* Service dicts a configuration file may hold besides the default one: a
\* valid second service, one with an empty model, one with timeout 0, an
\* empty dict, one with an unknown key.
SVC_WORK ==
    [keys |-> "ok", type |-> "ollama", base_url |-> "http://localhost:11434",
     model |-> "llama3", api_key |-> "", timeout |-> DEFAULT_TIMEOUT]
SVC_NO_MODEL == [SVC_WORK EXCEPT !.model = ""]
SVC_NO_TIMEOUT == [SVC_WORK EXCEPT !.timeout = 0]
SVC_EMPTY ==
    [keys |-> "empty", type |-> "", base_url |-> "", model |-> "",
     api_key |-> "", timeout |-> 0]
SVC_BAD_KEYS == [SVC_WORK EXCEPT !.keys = "bad"]

ALL_FEATURES == [is_dict |-> TRUE, auto_error_analysis |-> TRUE]

default_config ==
    [ai_services |-> [is_dict |-> TRUE, entries |-> [n \in {"default"} |-> SVC_DEFAULT]],
     active_ai_service |-> "default",
     features |-> ALL_FEATURES]

\* AIServiceConfig without the checks of __post_init__
make_service_config_unchecked(service_dict) ==
    IF service_dict.keys # "ok"
    THEN [raised |-> "TypeError", value |-> SVC_EMPTY]
    ELSE [raised |-> "none", value |-> service_dict]

\* AIServiceConfig.__init__ and __post_init__ on a service dict:
\* AIServiceConfig built from the service dict
make_service_config(service_dict) ==
    IF service_dict.keys # "ok"
    THEN [raised |-> "TypeError", value |-> SVC_EMPTY]
    ELSE IF service_dict.type = "" \/ service_dict.base_url = ""
            \/ service_dict.model = ""
         THEN [raised |-> "ValueError", value |-> SVC_EMPTY]
         ELSE IF service_dict.timeout <= 0
              THEN [raised |-> "ValueError", value |-> SVC_EMPTY]
              ELSE [raised |-> "none", value |-> service_dict]

\* {**default_config, **json.load(f)} for a JSON object: a key of the file
\* replaces the default value of that key as a whole
merge_config(obj) ==
    [ai_services |-> IF obj.has_services THEN obj.ai_services
                     ELSE default_config.ai_services,
     active_ai_service |-> IF obj.has_active THEN obj.active_ai_service
                           ELSE default_config.active_ai_service,
     features |-> IF obj.has_features THEN obj.features
                  ELSE default_config.features]

\* ConfigManager._load_config.  The handler names json.JSONDecodeError and
\* IOError: a file that is not UTF-8 text raises UnicodeDecodeError in
\* json.load, and unpacking a JSON value that is no object with ** raises
\* TypeError.
load_config(file) ==
    CASE file.kind = "missing" -> [raised |-> "none", config |-> default_config]
      [] file.kind = "unreadable" -> [raised |-> "none", config |-> default_config]
      [] file.kind = "invalid_json" -> [raised |-> "none", config |-> default_config]
      [] file.kind = "undecodable" ->
            [raised |-> "UnicodeDecodeError", config |-> default_config]
      [] file.kind = "non_object" ->
            [raised |-> "TypeError", config |-> default_config]
      [] OTHER -> [raised |-> "none", config |-> merge_config(file.obj)]

\* ConfigManager.get_active_ai_service
get_active_ai_service(cfg) ==
    IF ~cfg.ai_services.is_dict
    THEN [raised |-> "AttributeError", value |-> SVC_EMPTY]
    ELSE IF cfg.active_ai_service \notin DOMAIN cfg.ai_services.entries
         THEN [raised |-> "ValueError", value |-> SVC_EMPTY]
         ELSE IF cfg.ai_services.entries[cfg.active_ai_service].keys = "empty"
              THEN [raised |-> "ValueError", value |-> SVC_EMPTY]
              ELSE make_service_config(
                       cfg.ai_services.entries[cfg.active_ai_service])

\* ConfigManager.get_features: FeatureConfig built from the features dict
get_features(cfg) ==
    IF ~cfg.features.is_dict
    THEN [raised |-> "TypeError", auto_error_analysis |-> FALSE]
    ELSE [raised |-> "none",
          auto_error_analysis |-> cfg.features.auto_error_analysis]

\* ConfigManager.get_all_services: the first service dict that does not
\* build an AIServiceConfig raises
get_all_services(cfg) ==
    IF ~cfg.ai_services.is_dict THEN "AttributeError"
    ELSE IF \E n \in DOMAIN cfg.ai_services.entries :
                make_service_config(cfg.ai_services.entries[n]).raised = "TypeError"
         THEN "TypeError"
    ELSE IF \E n \in DOMAIN cfg.ai_services.entries :
                make_service_config(cfg.ai_services.entries[n]).raised = "ValueError"
         THEN "ValueError"
    ELSE "none"

\* json.dump(self._config, f): the file then holds the whole configuration
saved_file(cfg) ==
    [kind |-> "object",
     obj |-> [has_services |-> TRUE, ai_services |-> cfg.ai_services,
              has_active |-> TRUE, active_ai_service |-> cfg.active_ai_service,
              has_features |-> TRUE, features |-> cfg.features]]

\* ConfigManager.set_ai_service making the stored service the active one
\* every time
set_ai_service_activates(cfg, name, service) ==
    IF ~cfg.ai_services.is_dict
    THEN [raised |-> "TypeError", config |-> cfg]
    ELSE LET entries == cfg.ai_services.entries
             stored == [n \in (DOMAIN entries) \cup {name} |->
                           IF n = name THEN service ELSE entries[n]]
         IN  [raised |-> "none",
              config |-> [cfg EXCEPT
                  !.ai_services = [is_dict |-> TRUE, entries |-> stored],
                  !.active_ai_service = name]]

\* ConfigManager.set_ai_service(name, config) up to save_config: the new
\* in-memory configuration, or the exception of the item assignment
set_ai_service(cfg, name, service) ==
    IF ~cfg.ai_services.is_dict
    THEN [raised |-> "TypeError", config |-> cfg]
    ELSE LET entries == cfg.ai_services.entries
             stored == [n \in (DOMAIN entries) \cup {name} |->
                           IF n = name THEN service ELSE entries[n]]
         IN  [raised |-> "none",
              config |-> [cfg EXCEPT
                  !.ai_services = [is_dict |-> TRUE, entries |-> stored],
                  !.active_ai_service =
                      IF cfg.active_ai_service = "" THEN name
                      ELSE cfg.active_ai_service]]

\* ConfigManager.switch_ai_service(name) up to save_config
switch_ai_service(cfg, name) ==
    IF ~cfg.ai_services.is_dict
    THEN [raised |-> "TypeError", found |-> FALSE, config |-> cfg]
    ELSE IF name \in DOMAIN cfg.ai_services.entries
         THEN [raised |-> "none", found |-> TRUE,
               config |-> [cfg EXCEPT !.active_ai_service = name]]
         ELSE [raised |-> "none", found |-> FALSE, config |-> cfg]

(***************************************************************************)
(* The configuration files of the model.                                   *)
(***************************************************************************)
NoObject ==
    [has_services |-> FALSE, ai_services |-> default_config.ai_services,
     has_active |-> FALSE, active_ai_service |-> "",
     has_features |-> FALSE, features |-> ALL_FEATURES]

FileServices ==
    {[is_dict |-> FALSE, entries |-> <<>>],
     [is_dict |-> TRUE, entries |-> <<>>],
     [is_dict |-> TRUE, entries |-> [n \in {"work"} |-> SVC_WORK]],
     [is_dict |-> TRUE, entries |-> [n \in {"work"} |-> SVC_NO_MODEL]],
     [is_dict |-> TRUE, entries |-> [n \in {"default"} |-> SVC_BAD_KEYS]],
     [is_dict |-> TRUE,
      entries |-> [n \in {"default", "work"} |->
                      IF n = "default" THEN SVC_DEFAULT ELSE SVC_WORK]]}

FileFeatures ==
    {ALL_FEATURES,
     [is_dict |-> TRUE, auto_error_analysis |-> FALSE],
     [is_dict |-> FALSE, auto_error_analysis |-> FALSE]}

ObjectFiles ==
    {[kind |-> "object", obj |-> o] :
        o \in {p \in [has_services : BOOLEAN, ai_services : FileServices,
                      has_active : BOOLEAN,
                      active_ai_service : {"", "default", "work", "ghost"},
                      has_features : BOOLEAN, features : FileFeatures] :
                 /\ (~p.has_services => p.ai_services = default_config.ai_services)
                 /\ (~p.has_active => p.active_ai_service = "")
                 /\ (~p.has_features => p.features = ALL_FEATURES)}}

OtherFiles ==
    {[kind |-> k, obj |-> NoObject] :
        k \in {"missing", "unreadable", "invalid_json", "undecodable",
               "non_object"}}

ConfigFiles == ObjectFiles \cup OtherFiles

NotLoaded == [raised |-> "not loaded", config |-> default_config]

\* ConfigManager.__init__: self._config = self._load_config()
LoadConfig ==
    /\ loaded = NotLoaded
    /\ loaded' = load_config(config_file)
    /\ UNCHANGED config_file
    /\ UNCHANGED otherThanConfig

ConfigInit ==
    /\ config_file \in ConfigFiles
    /\ loaded = NotLoaded

ConfigIdle ==
    /\ config_file = [kind |-> "missing", obj |-> NoObject]
    /\ loaded = NotLoaded

ConfigNext == LoadConfig

(***************************************************************************)
(* CommandHistoryAnalyzer.analyze_command_sequence.  The intent names of   *)
(* the source are written in English, in the order of the source's table:  *)
(*   project_setup = 项目设置, dev_debug = 开发调试,                       *)
(*   sys_config = 系统配置, file_ops = 文件操作, net_debug = 网络调试,     *)
(*   container_ops = 容器操作.  The result "正在进行X" is <<"doing", X>>,  *)
(*   "常规操作" is <<"routine">> and the empty string is <<>>.             *)
(***************************************************************************)
sequence_patterns == <<
    [name |-> "project_setup",
     keywords |-> <<
          <<"g", "i", "t", " ", "c", "l", "o", "n", "e">>,
          <<"c", "d">>,
          <<"n", "p", "m", " ", "i", "n", "s", "t", "a", "l", "l">>,
          <<"p", "i", "p", " ", "i", "n", "s", "t", "a", "l", "l">>>>],
    [name |-> "dev_debug",
     keywords |-> <<
          <<"p", "y", "t", "h", "o", "n">>,
          <<"n", "o", "d", "e">>,
          <<"n", "p", "m", " ", "r", "u", "n">>,
          <<"g", "i", "t", " ", "a", "d", "d">>,
          <<"g", "i", "t", " ", "c", "o", "m", "m", "i", "t">>>>],
    [name |-> "sys_config",
     keywords |-> <<
          <<"s", "u", "d", "o">>,
          <<"s", "y", "s", "t", "e", "m", "c", "t", "l">>,
          <<"c", "h", "m", "o", "d">>,
          <<"c", "h", "o", "w", "n">>>>],
    [name |-> "file_ops",
     keywords |-> <<
          <<"m", "k", "d", "i", "r">>,
          <<"c", "p">>,
          <<"m", "v">>,
          <<"r", "m">>,
          <<"l", "s">>>>],
    [name |-> "net_debug",
     keywords |-> <<
          <<"c", "u", "r", "l">>,
          <<"w", "g", "e", "t">>,
          <<"p", "i", "n", "g">>,
          <<"n", "e", "t", "s", "t", "a", "t">>>>],
    [name |-> "container_ops",
     keywords |-> <<
          <<"d", "o", "c", "k", "e", "r">>,
          <<"d", "o", "c", "k", "e", "r", "-", "c", "o", "m", "p", "o", "s", "e">>>>] >>

\* any(any(keyword in cmd for keyword in keywords) for cmd in recent_commands)
sequence_matches(recent_commands, k) ==
    \E c \in 1..Len(recent_commands) :
        \E j \in 1..Len(sequence_patterns[k].keywords) :
            Contains(recent_commands[c], sequence_patterns[k].keywords[j])

RECURSIVE scan_sequence_patterns(_, _)
scan_sequence_patterns(recent_commands, k) ==
    IF k > Len(sequence_patterns) THEN <<"routine">>
    ELSE IF sequence_matches(recent_commands, k)
         THEN <<"doing", sequence_patterns[k].name>>
         ELSE scan_sequence_patterns(recent_commands, k + 1)

analyze_command_sequence(commands) ==
    IF Len(commands) < 2 THEN <<>>
    ELSE scan_sequence_patterns(LastK(commands, 3), 1)

(***************************************************************************)
(* The prompt of ErrorAnalyzer._build_error_prompt, as the sequence of the *)
(* values spliced into the fixed text, and the two ContextAnalyzer         *)
(* builders it uses.                                                       *)
(***************************************************************************)
\* seq[:n]
FirstK(seq, n) == IF n >= Len(seq) THEN seq ELSE SubSeq(seq, 1, n)

\* ContextAnalyzer.build_detailed_context_info
build_detailed_context_info(context) ==
    <<"cwd", context.cwd, "user", context.user, "os", context.os_info>>
    \o (IF context.directory_info.project_type # "unknown"
        THEN <<"file_count", context.directory_info.file_count,
               "project_type", context.directory_info.project_type>>
             \o (IF Len(context.directory_info.key_files) > 0
                 THEN <<"key_files", context.directory_info.key_files>>
                 ELSE <<>>)
        ELSE <<>>)
    \o (IF context.git_info.in_repo
        THEN <<"branch", context.git_info.current_branch>>
             \o (IF context.git_info.has_changes
                 THEN <<"changed_files", context.git_info.changed_files>>
                 ELSE <<>>)
        ELSE <<>>)

\* ContextAnalyzer.build_command_context
build_command_context(context) ==
    IF Len(context.recent_commands) = 0 THEN <<>>
    ELSE <<"recent", LastK(context.recent_commands, 5)>>
         \o (IF Len(context.command_patterns) > 0
             THEN <<"patterns", FirstK(context.command_patterns, 3)>>
             ELSE <<>>)
         \o (IF Len(analyze_command_sequence(context.recent_commands)) > 0
             THEN <<"intent", analyze_command_sequence(context.recent_commands)>>
             ELSE <<>>)

\* ErrorAnalyzer._build_error_prompt: the model name is read from the
\* active service of the configuration manager; raised is the exception of
\* get_active_ai_service.
build_error_prompt(cfg, command, exit_code, error_output, context) ==
    LET active == get_active_ai_service(cfg)
    IN  IF active.raised # "none"
        THEN [raised |-> active.raised, prompt |-> <<>>]
        ELSE [raised |-> "none",
              prompt |-> <<"model", active.value.model,
                           "context_info", build_detailed_context_info(context),
                           "history_context", build_command_context(context),
                           "command", command,
                           "exit_code", IntToStr(exit_code),
                           "error_output",
                           IF Len(error_output) > 0 THEN error_output
                           ELSE <<"none">> >>]

\* The FullContext get_full_context builds in a directory with the given
\* recent commands.
full_context(cwd, dir_info, git_info, recent_commands) ==
    [cwd |-> cwd, user |-> "user", os_info |-> "Linux",
     directory_info |-> dir_info, git_info |-> git_info,
     recent_commands |-> recent_commands,
     command_patterns |-> analyze_command_patterns(recent_commands)]

NO_REPO ==
    [in_repo |-> FALSE, current_branch |-> "", has_changes |-> FALSE,
     changed_files |-> 0]
MAIN_BRANCH ==
    [in_repo |-> TRUE, current_branch |-> "main", has_changes |-> TRUE,
     changed_files |-> 2]

\* The contexts and failure events the prompts are built from.
PromptContexts ==
    {full_context("/tmp", get_directory_info(TRUE, {}), NO_REPO, <<>>),
     full_context("/srv/app",
                  get_directory_info(TRUE, {"requirements.txt", ".git"}),
                  MAIN_BRANCH, <<cmd_git_add, cmd_git_commit, cmd_npm_install>>)}

cmd_err == <<"e", "r", "r">>

PromptEvents ==
    {[command |-> cmd_foo, exit_code |-> 1, error_output |-> <<>>],
     [command |-> cmd_foo, exit_code |-> 1, error_output |-> cmd_err],
     [command |-> cmd_git_add, exit_code |-> 128, error_output |-> cmd_err]}

NoPrompt ==
    [built |-> FALSE, event |-> [command |-> <<>>, exit_code |-> 0, error_output |-> <<>>],
     context |-> full_context("", get_directory_info(FALSE, {}), NO_REPO, <<>>),
     raised |-> "none", prompt |-> <<>>]

BuildErrorPrompt ==
    /\ loaded.raised = "none"
    /\ \E event \in PromptEvents, context \in PromptContexts :
        LET result == build_error_prompt(loaded.config, event.command,
                          event.exit_code, event.error_output, context)
        IN  last_prompt' = [built |-> TRUE, event |-> event, context |-> context,
                            raised |-> result.raised, prompt |-> result.prompt]
    /\ prev_prompt' = last_prompt
    /\ UNCHANGED <<config_file, loaded>>
    /\ UNCHANGED otherThanPrompt

\* ConfigManager.switch_ai_service(name) on the loaded configuration, with
\* save_config writing the file (write_ok) or raising.
SwitchAiService ==
    /\ loaded.raised = "none"
    /\ \E name \in {"default", "work", "ghost"}, write_ok \in BOOLEAN :
        LET switched == switch_ai_service(loaded.config, name)
        IN  /\ loaded' = [loaded EXCEPT !.config = switched.config]
            /\ config_file' =
                   IF switched.raised = "none" /\ switched.found /\ write_ok
                   THEN saved_file(switched.config)
                   ELSE config_file
    /\ UNCHANGED <<last_prompt, prev_prompt>>
    /\ UNCHANGED otherThanPrompt

\* The configuration files a prompt-building process starts from.
PromptStartFiles ==
    {f \in ConfigFiles :
        \/ f.kind = "missing"
        \/ /\ f.kind = "object"
           /\ f.obj.has_services
           /\ f.obj.has_active
           /\ ~f.obj.has_features
           /\ f.obj.ai_services.is_dict
           /\ DOMAIN f.obj.ai_services.entries \in {{"work"}, {"default", "work"}}}

PromptInit ==
    /\ config_file \in PromptStartFiles
    /\ loaded = NotLoaded
    /\ last_prompt = NoPrompt
    /\ prev_prompt = NoPrompt

PromptIdle ==
    /\ last_prompt = NoPrompt
    /\ prev_prompt = NoPrompt

PromptNext ==
    \/ LoadConfig
    \/ SwitchAiService
    \/ BuildErrorPrompt

(***************************************************************************)
(* main(): one invocation of the command line.  The process builds an      *)
(* AICompanion, which loads the configuration file, runs the operation     *)
(* the flags name inside main's try block, and ends.  The outcome is what  *)
(* the operation did: "success", "config_error" (no usable active service, *)
(* an invalid configuration field, an unknown service name),               *)
(* "io_error" (the configuration file could not be written),               *)
(* "backend_error" (the provider returned an error text) or "crash" (an    *)
(* exception left main).                                                   *)
(***************************************************************************)
EXIT_OK == 0
EXIT_UNCAUGHT == 1

\* AICompanion.show_config
show_config(cfg) ==
    IF get_all_services(cfg) # "none" THEN "config_error"
    ELSE IF get_features(cfg).raised # "none" THEN "config_error"
    ELSE "success"

\* AICompanion.switch_api_service(name): outcome and the file afterwards
switch_api_service(cfg, file, name, write_ok) ==
    LET switched == switch_ai_service(cfg, name)
    IN  IF switched.raised # "none"
        THEN [outcome |-> "config_error", file |-> file]
        ELSE IF switched.found
             THEN IF write_ok
                  THEN [outcome |-> "success", file |-> saved_file(switched.config)]
                  ELSE [outcome |-> "io_error", file |-> file]
             ELSE [outcome |-> "config_error", file |-> file]

\* AICompanion.set_api_config(api_type, base_url, model, api_key, name)
set_api_config(cfg, file, service, name, write_ok) ==
    LET made == make_service_config(service)
        stored == set_ai_service(cfg, name, service)
    IN  IF made.raised # "none"
        THEN [outcome |-> "config_error", file |-> file]
        ELSE IF stored.raised # "none"
             THEN [outcome |-> "config_error", file |-> file]
             ELSE IF ~write_ok
                  THEN [outcome |-> "io_error", file |-> file]
                  ELSE IF stored.config.active_ai_service = "" \/ name = "default"
                       THEN [outcome |-> "success",
                             file |-> saved_file(
                                 switch_ai_service(stored.config, name).config)]
                       ELSE [outcome |-> "success",
                             file |-> saved_file(stored.config)]

\* AICompanion.ask_question: ErrorAnalyzer.ask_question returns the
\* exception's text, main prints it
ask_question(cfg, backend_ok) ==
    IF get_active_ai_service(cfg).raised # "none" THEN "config_error"
    ELSE IF backend_ok THEN "success"
    ELSE "backend_error"

\* AICompanion.monitor_command for a failed command
monitor_command(cfg, backend_ok) ==
    IF get_features(cfg).raised # "none" THEN "config_error"
    ELSE IF ~get_features(cfg).auto_error_analysis THEN "success"
    ELSE ask_question(cfg, backend_ok)

\* The services and names --set-api and --switch-model are given.
CliServices == {SVC_WORK, SVC_NO_MODEL}
CliNames == {"default", "work", "ghost"}

NoRun == [op |-> "none", outcome |-> "none", exit_status |-> EXIT_OK]

\* main() from its start to the end of the process: an exception of the
\* constructor is outside the try block and ends the process with the
\* interpreter's status for an uncaught exception; everything the
\* operation raises is caught and printed, and main returns.
main(op, result) ==
    LET constructed == load_config(config_file)
    IN  IF constructed.raised # "none"
        THEN /\ cli_run' = [op |-> op, outcome |-> "crash",
                            exit_status |-> EXIT_UNCAUGHT]
             /\ UNCHANGED config_file
        ELSE /\ cli_run' = [op |-> op, outcome |-> result.outcome,
                            exit_status |-> EXIT_OK]
             /\ config_file' = result.file

CliConfig ==
    /\ main("config",
            [outcome |-> show_config(load_config(config_file).config),
             file |-> config_file])
    /\ UNCHANGED loaded
    /\ UNCHANGED otherThanCli

CliSetApi ==
    /\ \E service \in CliServices, name \in CliNames, write_ok \in BOOLEAN :
           main("set_api",
                set_api_config(load_config(config_file).config, config_file,
                               service, name, write_ok))
    /\ UNCHANGED loaded
    /\ UNCHANGED otherThanCli

CliSwitchModel ==
    /\ \E name \in CliNames, write_ok \in BOOLEAN :
           main("switch_model",
                switch_api_service(load_config(config_file).config, config_file,
                                   name, write_ok))
    /\ UNCHANGED loaded
    /\ UNCHANGED otherThanCli

CliAsk ==
    /\ \E backend_ok \in BOOLEAN :
           main("ask",
                [outcome |-> ask_question(load_config(config_file).config,
                                          backend_ok),
                 file |-> config_file])
    /\ UNCHANGED loaded
    /\ UNCHANGED otherThanCli

CliMonitor ==
    /\ \E backend_ok \in BOOLEAN :
           main("monitor",
                [outcome |-> monitor_command(load_config(config_file).config,
                                             backend_ok),
                 file |-> config_file])
    /\ UNCHANGED loaded
    /\ UNCHANGED otherThanCli

CliHelp ==
    /\ main("help", [outcome |-> "success", file |-> config_file])
    /\ UNCHANGED loaded
    /\ UNCHANGED otherThanCli

CliInit ==
    /\ config_file \in ConfigFiles
    /\ loaded = NotLoaded
    /\ cli_run = NoRun

CliIdle == cli_run = NoRun

CliNext ==
    \/ CliConfig
    \/ CliSetApi
    \/ CliSwitchModel
    \/ CliAsk
    \/ CliMonitor
    \/ CliHelp

(***************************************************************************)
(* ShellIntegrationManager: the hook block in ~/.bashrc.  The file is a    *)
(* sequence of lines, each line one of                                     *)
(*   "user"     a line of the user,                                        *)
(*   "mention"  a line of the user that holds the words                    *)
(*              Linux AI Companion Hook without the leading "# ",          *)
(*   "sep"      the text install writes in front of the block: a backslash, *)
(*              the letter n and the newline the block starts with,        *)
(*   "blank"    an empty line: the newline that followed the end marker    *)
(*              and is left behind when the block is cut out,              *)
(*   "start"    "# Linux AI Companion Hook",                               *)
(*   "body"     the shell code of the hook,                                *)
(*   "end"      "# Linux AI Companion Hook - 结束", which holds the start   *)
(*              marker as a prefix.                                        *)
(***************************************************************************)
\* Bounds of the hook specification: the lines of the user's file and the
\* number of blocks written.
MaxUserLines == 3
MaxInstalls == 4

shell_hook == <<"start", "body", "end">>

\* 'Linux AI Companion Hook' in line
holds_hook_name(line) == line \in {"mention", "start", "end"}

\* start_marker in line, end_marker in line
holds_start_marker(line) == line \in {"start", "end"}
holds_end_marker(line) == line = "end"

\* content.find(marker): the first of the lines that hold the marker,
\* 0 for -1
find_line(positions) ==
    IF positions = {} THEN 0
    ELSE CHOOSE i \in positions : \A j \in positions : i <= j

\* ShellIntegrationManager._install_to_bashrc without the test for a hook
\* that is already there
install_to_bashrc_always(file) ==
    IF ~file.exists THEN [ok |-> FALSE, file |-> file]
    ELSE [ok |-> TRUE,
          file |-> [file EXCEPT !.lines = file.lines \o <<"sep">> \o shell_hook]]

\* ShellIntegrationManager._install_to_bashrc
install_to_bashrc(file) ==
    IF ~file.exists THEN [ok |-> FALSE, file |-> file]
    ELSE IF \E i \in 1..Len(file.lines) : holds_hook_name(file.lines[i])
         THEN [ok |-> FALSE, file |-> file]
         ELSE [ok |-> TRUE,
               file |-> [file EXCEPT !.lines = file.lines \o <<"sep">> \o shell_hook]]

\* ShellIntegrationManager.install_shell_hooks: copying the program and
\* writing the scripts may raise (io_ok false) before the file is touched
install_shell_hooks(file, io_ok) ==
    IF ~io_ok THEN [ok |-> FALSE, file |-> file]
    ELSE install_to_bashrc(file)

\* ShellIntegrationManager.uninstall_shell_hooks: the text from the start
\* marker up to the last character of the end marker is cut out
uninstall_shell_hooks(file) ==
    IF ~file.exists THEN [ok |-> FALSE, file |-> file]
    ELSE LET content == file.lines
             start_pos == find_line({i \in 1..Len(content) :
                                       holds_start_marker(content[i])})
             end_pos == find_line({i \in 1..Len(content) :
                                     holds_end_marker(content[i])})
         IN  IF start_pos = 0 \/ end_pos = 0
             THEN [ok |-> FALSE, file |-> file]
             ELSE [ok |-> TRUE,
                   file |-> [file EXCEPT !.lines =
                       SubSeq(content, 1, start_pos - 1) \o <<"blank">>
                           \o SubSeq(content, end_pos + 1, Len(content))]]

NoHookOp ==
    [op |-> "none", ok |-> FALSE, before |-> [exists |-> FALSE, lines |-> <<>>],
     prev_op |-> "none", prev_ok |-> FALSE,
     prev_before |-> [exists |-> FALSE, lines |-> <<>>]]

InstallShellHooks ==
    /\ hook_installs < MaxInstalls
    /\ \E io_ok \in BOOLEAN :
        LET done == install_shell_hooks(bashrc, io_ok)
        IN  /\ bashrc' = done.file
            /\ last_hook_op' =
                   [op |-> "install", ok |-> done.ok, before |-> bashrc,
                    prev_op |-> last_hook_op.op, prev_ok |-> last_hook_op.ok,
                    prev_before |-> last_hook_op.before]
            /\ hook_installs' = IF done.ok THEN hook_installs + 1 ELSE hook_installs
    /\ UNCHANGED otherThanHook

UninstallShellHooks ==
    /\ LET done == uninstall_shell_hooks(bashrc)
       IN  /\ bashrc' = done.file
           /\ last_hook_op' =
                  [op |-> "uninstall", ok |-> done.ok, before |-> bashrc,
                   prev_op |-> last_hook_op.op, prev_ok |-> last_hook_op.ok,
                   prev_before |-> last_hook_op.before]
    /\ UNCHANGED hook_installs
    /\ UNCHANGED otherThanHook

HookInit ==
    /\ bashrc \in {[exists |-> FALSE, lines |-> <<>>]} \cup
                  {[exists |-> TRUE, lines |-> l] :
                      l \in SeqsUpTo({"user", "mention"}, MaxUserLines)}
    /\ hook_installs = 0
    /\ last_hook_op = NoHookOp

HookIdle ==
    /\ bashrc = [exists |-> FALSE, lines |-> <<>>]
    /\ hook_installs = 0
    /\ last_hook_op = NoHookOp

HookNext == InstallShellHooks \/ UninstallShellHooks

(***************************************************************************)
(* One ConfigManager used by one process: the configuration is loaded      *)
(* once, then services are stored, switched and handed out.  last_mgr_op   *)
(* records the last call: its arguments, what it returned or raised, the   *)
(* configuration before it and the service configurations it handed out.   *)
(***************************************************************************)
SVC_TEST ==
    [keys |-> "ok", type |-> "openai",
     base_url |-> "https://api.test.com/v1/chat/completions",
     model |-> "test-model", api_key |-> "test-key", timeout |-> DEFAULT_TIMEOUT]

\* AIServiceConfig objects a caller passes to set_ai_service, and the
\* names it uses.
MgrServices == {SVC_WORK, SVC_TEST}
MgrNames == {"default", "work", "ghost"}

\* AICompanion.set_api_config(api_type, base_url, model, api_key, name):
\* the configuration in memory afterwards and what happened; save_config
\* writes the file (write_ok) or raises after the change in memory.
set_api_config_memory(cfg, service, name, write_ok) ==
    LET made == make_service_config(service)
        stored == set_ai_service(cfg, name, service)
    IN  IF made.raised # "none"
        THEN [raised |-> made.raised, stored |-> FALSE, switched |-> FALSE,
              config |-> cfg]
        ELSE IF stored.raised # "none"
             THEN [raised |-> stored.raised, stored |-> FALSE,
                   switched |-> FALSE, config |-> cfg]
             ELSE IF ~write_ok
                  THEN [raised |-> "IOError", stored |-> TRUE,
                        switched |-> FALSE, config |-> stored.config]
                  ELSE IF stored.config.active_ai_service = "" \/ name = "default"
                       THEN [raised |-> "none", stored |-> TRUE, switched |-> TRUE,
                             config |-> switch_ai_service(stored.config, name).config]
                       ELSE [raised |-> "none", stored |-> TRUE,
                             switched |-> FALSE, config |-> stored.config]

\* The service configurations get_all_services hands out
all_services(cfg) ==
    IF get_all_services(cfg) # "none" THEN {}
    ELSE {cfg.ai_services.entries[n] : n \in DOMAIN cfg.ai_services.entries}

NoMgrOp ==
    [op |-> "none", name |-> "", service |-> SVC_EMPTY, returned |-> FALSE,
     raised |-> "none", before |-> default_config, handed |-> {}]

\* The file after a call that changed the configuration in memory
file_after(cfg, changed, write_ok) ==
    IF changed /\ write_ok THEN saved_file(cfg) ELSE config_file

MgrSetAiService ==
    /\ loaded.raised = "none"
    /\ \E name \in MgrNames, service \in MgrServices, write_ok \in BOOLEAN :
        LET stored == set_ai_service(loaded.config, name, service)
            changed == stored.raised = "none"
        IN  /\ loaded' = [loaded EXCEPT !.config = stored.config]
            /\ config_file' = file_after(stored.config, changed, write_ok)
            /\ last_mgr_op' =
                   [op |-> "set", name |-> name, service |-> service,
                    returned |-> FALSE,
                    raised |-> IF changed /\ ~write_ok THEN "IOError"
                               ELSE stored.raised,
                    before |-> loaded.config, handed |-> {}]
    /\ UNCHANGED switched_to
    /\ UNCHANGED otherThanManager

MgrSwitchAiService ==
    /\ loaded.raised = "none"
    /\ \E name \in MgrNames, write_ok \in BOOLEAN :
        LET switched == switch_ai_service(loaded.config, name)
        IN  /\ loaded' = [loaded EXCEPT !.config = switched.config]
            /\ config_file' = file_after(switched.config, switched.found, write_ok)
            /\ last_mgr_op' =
                   [op |-> "switch", name |-> name, service |-> SVC_EMPTY,
                    returned |-> switched.found /\ write_ok,
                    raised |-> IF switched.found /\ ~write_ok THEN "IOError"
                               ELSE switched.raised,
                    before |-> loaded.config, handed |-> {}]
            /\ switched_to' = IF switched.found THEN name ELSE switched_to
    /\ UNCHANGED otherThanManager

MgrSetApiConfig ==
    /\ loaded.raised = "none"
    /\ \E name \in MgrNames, service \in CliServices, write_ok \in BOOLEAN :
        LET done == set_api_config_memory(loaded.config, service, name, write_ok)
        IN  /\ loaded' = [loaded EXCEPT !.config = done.config]
            /\ config_file' = file_after(done.config, done.stored, write_ok)
            /\ last_mgr_op' =
                   [op |-> "set_api", name |-> name, service |-> service,
                    returned |-> done.stored, raised |-> done.raised,
                    before |-> loaded.config, handed |-> {}]
            /\ switched_to' = IF done.switched THEN name ELSE switched_to
    /\ UNCHANGED otherThanManager

MgrGetActiveAiService ==
    /\ loaded.raised = "none"
    /\ LET active == get_active_ai_service(loaded.config)
       IN  last_mgr_op' =
               [op |-> "get_active", name |-> "", service |-> SVC_EMPTY,
                returned |-> FALSE, raised |-> active.raised,
                before |-> loaded.config,
                handed |-> IF active.raised = "none" THEN {active.value} ELSE {}]
    /\ UNCHANGED <<config_file, loaded, switched_to>>
    /\ UNCHANGED otherThanManager

MgrGetAllServices ==
    /\ loaded.raised = "none"
    /\ last_mgr_op' =
           [op |-> "get_all", name |-> "", service |-> SVC_EMPTY,
            returned |-> FALSE, raised |-> get_all_services(loaded.config),
            before |-> loaded.config, handed |-> all_services(loaded.config)]
    /\ UNCHANGED <<config_file, loaded, switched_to>>
    /\ UNCHANGED otherThanManager

\* The configuration files the process may find: those of the loader
\* without a features key, and one whose service has timeout 0.
MgrStartFiles ==
    {f \in ConfigFiles : f.kind = "object" => ~f.obj.has_features}
    \cup {[kind |-> "object",
           obj |-> [NoObject EXCEPT
                      !.has_services = TRUE,
                      !.ai_services = [is_dict |-> TRUE,
                          entries |-> [n \in {"default"} |-> SVC_NO_TIMEOUT]]]]}

ManagerInit ==
    /\ config_file \in MgrStartFiles
    /\ loaded = NotLoaded
    /\ last_mgr_op = NoMgrOp
    /\ switched_to = ""

ManagerIdle ==
    /\ last_mgr_op = NoMgrOp
    /\ switched_to = ""

ManagerNext ==
    \/ LoadConfig
    \/ MgrSetAiService
    \/ MgrSwitchAiService
    \/ MgrSetApiConfig
    \/ MgrGetActiveAiService
    \/ MgrGetAllServices

(***************************************************************************)
(* The providers.  A type string is a sequence of characters; a text the   *)
(* provider returns is a sequence of its parts, the empty text is <<>>.    *)
(* A transport outcome is what one HTTP request meets:                     *)
(*   kind "timeout", "refused"   urlopen raises URLError / socket.timeout  *)
(*   kind "http_error"           urlopen raises HTTPError with a status    *)
(*   kind "response"             urlopen returns, getcode() is the status  *)
(* and the body is one of                                                  *)
(*   "answer"        JSON with the fields the called variant reads         *)
(*   "blank_answer"  the same, the text only white space                   *)
(*   "other_shape"   a JSON object without those fields                    *)
(*   "not_object"    JSON that is a string                                 *)
(*   "not_json", "empty", "undecodable" (bytes that are not UTF-8)         *)
(*   "error_object"  {"error": {"message": ...}}                           *)
(*   "error_string"  {"error": "..."}                                      *)
(***************************************************************************)
\* Bound of the provider specification: the leading characters of a type
\* name that are tried in upper case.
MaxCasePositions == 2

LOWER_LETTERS ==
    <<"a", "b", "c", "d", "e", "f", "g", "h", "i", "j", "k", "l", "m",
      "n", "o", "p", "q", "r", "s", "t", "u", "v", "w", "x", "y", "z">>
UPPER_LETTERS ==
    <<"A", "B", "C", "D", "E", "F", "G", "H", "I", "J", "K", "L", "M",
      "N", "O", "P", "Q", "R", "S", "T", "U", "V", "W", "X", "Y", "Z">>

\* str.lower and str.upper on the characters of the model
lower_char(c) ==
    IF \E i \in 1..26 : UPPER_LETTERS[i] = c
    THEN LOWER_LETTERS[CHOOSE i \in 1..26 : UPPER_LETTERS[i] = c]
    ELSE c
upper_char(c) ==
    IF \E i \in 1..26 : LOWER_LETTERS[i] = c
    THEN UPPER_LETTERS[CHOOSE i \in 1..26 : LOWER_LETTERS[i] = c]
    ELSE c
lower(s) == [i \in 1..Len(s) |-> lower_char(s[i])]

T_openai == <<"o", "p", "e", "n", "a", "i">>
T_ollama == <<"o", "l", "l", "a", "m", "a">>
T_anthropic == <<"a", "n", "t", "h", "r", "o", "p", "i", "c">>
T_custom == <<"c", "u", "s", "t", "o", "m">>
T_gemini == <<"g", "e", "m", "i", "n", "i">>
T_openai_space == <<"o", "p", "e", "n", "a", "i", " ">>

\* AIProviderFactory.providers, in the order of the source
providers ==
    <<[type |-> T_openai, class |-> "OpenAIProvider"],
      [type |-> T_ollama, class |-> "OllamaProvider"],
      [type |-> T_anthropic, class |-> "AnthropicProvider"],
      [type |-> T_custom, class |-> "OpenAIProvider"]>>

\* AIProviderFactory.create_provider without .lower()
create_provider_exact(type) ==
    IF \E k \in 1..Len(providers) : providers[k].type = type
    THEN [raised |-> "none",
          class |-> providers[CHOOSE k \in 1..Len(providers) :
                                  providers[k].type = type].class]
    ELSE [raised |-> "ValueError", class |-> "none"]

\* AIProviderFactory.create_provider
create_provider(type) ==
    IF \E k \in 1..Len(providers) : providers[k].type = lower(type)
    THEN [raised |-> "none",
          class |-> providers[CHOOSE k \in 1..Len(providers) :
                                  providers[k].type = lower(type)].class]
    ELSE [raised |-> "ValueError", class |-> "none"]

\* The spellings of a type name with some of its first MaxCasePositions
\* characters in upper case, and the type strings of the model.
CaseVariants(w) ==
    {[i \in 1..Len(w) |-> IF i \in up THEN upper_char(w[i]) ELSE w[i]] :
        up \in SUBSET (1..MaxCasePositions)}

TypeStrings ==
    UNION {CaseVariants(w) :
              w \in {T_openai, T_ollama, T_anthropic, T_custom, T_gemini,
                     T_openai_space}}

Bodies ==
    {"answer", "blank_answer", "other_shape", "not_object", "not_json",
     "empty", "undecodable", "error_object", "error_string"}

Transports ==
    {[kind |-> k, status |-> "0", body |-> "empty"] : k \in {"timeout", "refused"}}
    \cup {[kind |-> "http_error", status |-> "500", body |-> b] : b \in Bodies}
    \cup {[kind |-> "http_error", status |-> "401", body |-> "error_object"]}
    \cup {[kind |-> "response", status |-> "200", body |-> b] : b \in Bodies}
    \cup {[kind |-> "response", status |-> "201", body |-> "answer"]}

\* AIProvider._http_request: the result dict, or the exception that
\* leaves it (decoding the body of an HTTPError happens inside the
\* handler of the try statement)
http_request(t) ==
    IF t.kind \in {"timeout", "refused"}
    THEN [raised |-> "none", status_code |-> "0", content |-> "empty",
          has_error |-> TRUE]
    ELSE IF t.kind = "http_error"
         THEN IF t.body = "undecodable"
              THEN [raised |-> "UnicodeDecodeError", status_code |-> "0",
                    content |-> "empty", has_error |-> FALSE]
              ELSE [raised |-> "none", status_code |-> t.status,
                    content |-> t.body, has_error |-> TRUE]
    ELSE IF t.body = "undecodable"
         THEN [raised |-> "none", status_code |-> "0", content |-> "empty",
               has_error |-> TRUE]
         ELSE [raised |-> "none", status_code |-> t.status,
               content |-> t.body, has_error |-> FALSE]

\* json.loads(content) followed by the subscripts and .strip() of the
\* variant: the text, or the exception
read_answer(content) ==
    CASE content = "answer" -> [raised |-> "none", text |-> <<"answer">>]
      [] content = "blank_answer" -> [raised |-> "none", text |-> <<>>]
      [] content \in {"other_shape", "error_object", "error_string"} ->
            [raised |-> "KeyError", text |-> <<>>]
      [] content = "not_object" -> [raised |-> "TypeError", text |-> <<>>]
      [] OTHER -> [raised |-> "JSONDecodeError", text |-> <<>>]

\* OpenAIProvider.call_api, the text added for the body of a failed call
openai_error_detail(content) ==
    CASE content = "empty" -> <<>>
      [] content = "error_object" -> <<" - ", "message">>
      [] content \in {"error_string", "not_json"} -> <<" - Response: ", content>>
      [] OTHER -> <<>>

\* OpenAIProvider.call_api with its outer handler re-raising
openai_call_api_raising(t) ==
    LET response == http_request(t)
    IN  IF response.raised # "none"
        THEN [raised |-> response.raised, text |-> <<>>]
        ELSE IF response.status_code = "200"
             THEN read_answer(response.content)
             ELSE [raised |-> "none",
                   text |-> <<"API call failed: ", response.status_code>>
                            \o (IF response.has_error THEN <<" - ", "error">>
                                ELSE <<>>)
                            \o openai_error_detail(response.content)]

\* OpenAIProvider.call_api
openai_call_api(t) ==
    LET response == http_request(t)
    IN  IF response.raised # "none"
        THEN [raised |-> "none", text |-> <<"API call failed: ", response.raised>>]
        ELSE IF response.status_code = "200"
             THEN IF read_answer(response.content).raised # "none"
                  THEN [raised |-> "none",
                        text |-> <<"API call failed: ",
                                   read_answer(response.content).raised>>]
                  ELSE read_answer(response.content)
             ELSE [raised |-> "none",
                   text |-> <<"API call failed: ", response.status_code>>
                            \o (IF response.has_error THEN <<" - ", "error">>
                                ELSE <<>>)
                            \o openai_error_detail(response.content)]

\* OllamaProvider.call_api
ollama_call_api(t) ==
    LET response == http_request(t)
    IN  IF response.raised # "none"
        THEN [raised |-> "none",
              text |-> <<"Ollama connection failed: ", response.raised>>]
        ELSE IF response.status_code = "200"
             THEN IF read_answer(response.content).raised # "none"
                  THEN [raised |-> "none",
                        text |-> <<"Ollama connection failed: ",
                                   read_answer(response.content).raised>>]
                  ELSE read_answer(response.content)
             ELSE [raised |-> "none",
                   text |-> <<"Ollama API call failed: ", response.status_code,
                              " - ">>
                            \o (IF response.content = "empty" THEN <<>>
                                ELSE <<response.content>>)]

\* AnthropicProvider.call_api
anthropic_call_api(t) ==
    LET response == http_request(t)
    IN  IF response.raised # "none"
        THEN [raised |-> "none",
              text |-> <<"Anthropic API call failed: ", response.raised>>]
        ELSE IF response.status_code = "200"
             THEN IF read_answer(response.content).raised # "none"
                  THEN [raised |-> "none",
                        text |-> <<"Anthropic API call failed: ",
                                   read_answer(response.content).raised>>]
                  ELSE read_answer(response.content)
             ELSE [raised |-> "none",
                   text |-> <<"Anthropic API call failed: ", response.status_code>>]

\* provider.call_api(prompt) of the class the factory chose
call_api(class, t) ==
    CASE class = "OpenAIProvider" -> openai_call_api(t)
      [] class = "OllamaProvider" -> ollama_call_api(t)
      [] OTHER -> anthropic_call_api(t)

ProviderClasses == {"OpenAIProvider", "OllamaProvider", "AnthropicProvider"}

NoProviderCreated == [type |-> <<>>, raised |-> "none", class |-> "none"]

NoProviderCall ==
    [called |-> FALSE, class |-> "none",
     transport |-> [kind |-> "none", status |-> "0", body |-> "empty"],
     raised |-> "none", text |-> <<>>]

\* AIProviderFactory.create_provider(config)
CreateProvider ==
    /\ \E type \in TypeStrings :
        provider_created' =
            [type |-> type, raised |-> create_provider(type).raised,
             class |-> create_provider(type).class]
    /\ UNCHANGED provider_call
    /\ UNCHANGED otherThanProvider

\* provider.call_api(prompt) on a provider of one of the three classes
CallApi ==
    /\ \E class \in ProviderClasses, t \in Transports :
        provider_call' =
            [called |-> TRUE, class |-> class, transport |-> t,
             raised |-> call_api(class, t).raised,
             text |-> call_api(class, t).text]
    /\ UNCHANGED provider_created
    /\ UNCHANGED otherThanProvider

ProviderInit ==
    /\ provider_created = NoProviderCreated
    /\ provider_call = NoProviderCall

ProviderIdle ==
    /\ provider_created = NoProviderCreated
    /\ provider_call = NoProviderCall

ProviderNext == CreateProvider \/ CallApi

(***************************************************************************)
(* One monitor or ask invocation.  dedup is the state of the ErrorAnalyzer *)
(* of the process, fault the step of the try block that raises before the  *)
(* provider is constructed ("context": get_full_context, "config":         *)
(* get_active_ai_service), type the type of the active service, and        *)
(* transports what the network would give to a first and to a second       *)
(* request.                                                                *)
(***************************************************************************)
\* Bound of the process specification: the last second of the clock.
MaxClock == 6

\* ErrorAnalyzer.__init__
ErrorAnalyzer_init_persisted ==
    process_run.dedup

ErrorAnalyzer_init ==
    [last_analyzed_command |-> NoKey, last_analyzed_time |-> 0]

\* ErrorAnalyzer._should_analyze on the state of one analyzer
ErrorAnalyzer_should_analyze(dedup, command, exit_code, current_time) ==
    IF /\ dedup.last_analyzed_command = command_key(command, exit_code)
       /\ current_time - dedup.last_analyzed_time < DEDUP_WINDOW
    THEN FALSE
    ELSE should_analyze_error(command, exit_code)

\* ErrorAnalyzer._update_analysis_cache
update_analysis_cache(command, exit_code, current_time) ==
    [last_analyzed_command |-> command_key(command, exit_code),
     last_analyzed_time |-> current_time]

\* create_provider and call_api with a second request after a failed one
backend_call_retrying(type, transports) ==
    LET created == create_provider(type)
        first == call_api(created.class, transports[1])
    IN  IF created.raised # "none"
        THEN [raised |-> created.raised, text |-> <<>>, calls |-> 0]
        ELSE IF first.text # <<"answer">>
             THEN [raised |-> "none",
                   text |-> call_api(created.class, transports[2]).text,
                   calls |-> 2]
             ELSE [raised |-> "none", text |-> first.text, calls |-> 1]

\* AIProviderFactory.create_provider(ai_service_config) and
\* provider.call_api(prompt), as analyze_error and ask_question run them
backend_call(type, transports) ==
    LET created == create_provider(type)
        first == call_api(created.class, transports[1])
    IN  IF created.raised # "none"
        THEN [raised |-> created.raised, text |-> <<>>, calls |-> 0]
        ELSE [raised |-> first.raised, text |-> first.text, calls |-> 1]

\* The try block of analyze_error and of ask_question up to call_api;
\* prompt_built: the prompt builder returned a prompt
try_backend(fault, type, transports) ==
    IF fault = "context"
    THEN [raised |-> "OSError", text |-> <<>>, calls |-> 0, prompt_built |-> FALSE]
    ELSE IF fault = "config"
         THEN [raised |-> "ValueError", text |-> <<>>, calls |-> 0,
               prompt_built |-> FALSE]
         ELSE backend_call(type, transports) @@ [prompt_built |-> TRUE]

\* ErrorAnalyzer.analyze_error
ErrorAnalyzer_analyze_error(dedup, command, exit_code, fault, type, transports, current_time) ==
    LET tried == try_backend(fault, type, transports)
    IN  IF ~ErrorAnalyzer_should_analyze(dedup, command, exit_code, current_time)
        THEN [accepted |-> FALSE, returned_none |-> TRUE, text |-> <<>>,
              backend_calls |-> 0, prompt_built |-> FALSE, dedup |-> dedup]
        ELSE IF tried.raised # "none"
             THEN [accepted |-> TRUE, returned_none |-> FALSE,
                   text |-> <<"analysis problem: ", tried.raised>>,
                   backend_calls |-> tried.calls,
                   prompt_built |-> tried.prompt_built, dedup |-> dedup]
             ELSE [accepted |-> TRUE, returned_none |-> FALSE,
                   text |-> tried.text, backend_calls |-> tried.calls,
                   prompt_built |-> tried.prompt_built,
                   dedup |-> update_analysis_cache(command, exit_code,
                                                   current_time)]

\* ErrorAnalyzer.ask_question
ErrorAnalyzer_ask_question(fault, type, transports) ==
    LET tried == try_backend(fault, type, transports)
    IN  IF tried.raised # "none"
        THEN [text |-> <<"question problem: ", tried.raised>>,
              backend_calls |-> tried.calls]
        ELSE [text |-> tried.text, backend_calls |-> tried.calls]

\* AICompanion.monitor_command without the test of the exit code and of
\* the auto_error_analysis feature
AICompanion_monitor_command_ungated(dedup, command, exit_code, auto_error_analysis, fault, type, transports, current_time) ==
    LET analyzed == ErrorAnalyzer_analyze_error(dedup, command, exit_code,
                        fault, type, transports, current_time)
    IN  [reached |-> TRUE, accepted |-> analyzed.accepted,
         displayed |-> analyzed.text # <<>>, text |-> analyzed.text,
         backend_calls |-> analyzed.backend_calls,
         prompt_built |-> analyzed.prompt_built, dedup |-> analyzed.dedup]

\* AICompanion.monitor_command: what it displays, if anything
AICompanion_monitor_command(dedup, command, exit_code, auto_error_analysis, fault, type, transports, current_time) ==
    LET analyzed == ErrorAnalyzer_analyze_error(dedup, command, exit_code,
                        fault, type, transports, current_time)
    IN  IF exit_code # 0 /\ auto_error_analysis
        THEN [reached |-> TRUE, accepted |-> analyzed.accepted,
              displayed |-> analyzed.text # <<>>, text |-> analyzed.text,
              backend_calls |-> analyzed.backend_calls,
              prompt_built |-> analyzed.prompt_built,
              dedup |-> analyzed.dedup]
        ELSE [reached |-> FALSE, accepted |-> FALSE, displayed |-> FALSE,
              text |-> <<>>, backend_calls |-> 0, prompt_built |-> FALSE,
              dedup |-> dedup]

\* AICompanion.ask_question
AICompanion_ask_question(fault, type, transports) ==
    ErrorAnalyzer_ask_question(fault, type, transports)

InvokeFaults == {"none", "context", "config"}
InvokeTypes == {T_openai, <<"O">> \o Tail(T_ollama), T_anthropic, T_gemini}
InvokeCommands == {cmd_foo, cmd_history}
InvokeExitCodes == {0, 1}
FirstTransports ==
    {[kind |-> "timeout", status |-> "0", body |-> "empty"],
     [kind |-> "http_error", status |-> "500", body |-> "not_json"],
     [kind |-> "response", status |-> "200", body |-> "other_shape"],
     [kind |-> "response", status |-> "200", body |-> "answer"]}
SecondTransports ==
    {[kind |-> "timeout", status |-> "0", body |-> "empty"],
     [kind |-> "response", status |-> "200", body |-> "answer"]}

NoInvocation ==
    [kind |-> "none", command |-> <<>>, exit_code |-> 0,
     auto_error_analysis |-> FALSE, fault |-> "none", type |-> <<>>,
     transports |-> <<>>, text |-> <<>>, displayed |-> FALSE,
     backend_calls |-> 0]

\* python3 main.py --monitor command exit_code: one process, one analyzer
InvokeMonitor ==
    /\ \E command \in InvokeCommands, exit_code \in InvokeExitCodes,
          auto_error_analysis \in BOOLEAN, fault \in InvokeFaults,
          type \in InvokeTypes, first \in FirstTransports,
          second \in SecondTransports :
        LET ran == AICompanion_monitor_command(ErrorAnalyzer_init, command,
                       exit_code, auto_error_analysis, fault, type,
                       <<first, second>>, 0)
        IN  invocation' =
                [kind |-> "monitor", command |-> command,
                 exit_code |-> exit_code,
                 auto_error_analysis |-> auto_error_analysis,
                 fault |-> fault, type |-> type,
                 transports |-> <<first, second>>, text |-> ran.text,
                 displayed |-> ran.displayed,
                 backend_calls |-> ran.backend_calls]
    /\ UNCHANGED otherThanInvocation

\* python3 main.py --ask question
InvokeAsk ==
    /\ \E fault \in InvokeFaults, type \in InvokeTypes,
          first \in FirstTransports, second \in SecondTransports :
        LET ran == AICompanion_ask_question(fault, type, <<first, second>>)
        IN  invocation' =
                [kind |-> "ask", command |-> <<>>, exit_code |-> 0,
                 auto_error_analysis |-> FALSE, fault |-> fault,
                 type |-> type, transports |-> <<first, second>>,
                 text |-> ran.text, displayed |-> TRUE,
                 backend_calls |-> ran.backend_calls]
    /\ UNCHANGED otherThanInvocation

InvocationInit == invocation = NoInvocation

InvocationIdle == invocation = NoInvocation

InvocationNext == InvokeMonitor \/ InvokeAsk

(***************************************************************************)
(* The deployment the shell hook produces: PROMPT_COMMAND starts one       *)
(* python3 process per finished command, each process builds its own       *)
(* AICompanion and with it its own ErrorAnalyzer, and exits.               *)
(***************************************************************************)
NoProcessRun ==
    [ran |-> FALSE, at |-> 0, command |-> <<>>, exit_code |-> 0,
     auto_error_analysis |-> FALSE, reached |-> FALSE, accepted |-> FALSE,
     backend_calls |-> 0,
     dedup |-> [last_analyzed_command |-> NoKey, last_analyzed_time |-> 0]]

\* _ai_companion_prompt_command: python3 main.py --monitor command code
RunMonitorProcess ==
    /\ \E command \in InvokeCommands, exit_code \in InvokeExitCodes,
          auto_error_analysis \in BOOLEAN, first \in FirstTransports :
        LET ran == AICompanion_monitor_command(ErrorAnalyzer_init, command,
                       exit_code, auto_error_analysis, "none", T_openai,
                       <<first, first>>, wall_clock)
        IN  process_run' =
                [ran |-> TRUE, at |-> wall_clock, command |-> command,
                 exit_code |-> exit_code,
                 auto_error_analysis |-> auto_error_analysis,
                 reached |-> ran.reached, accepted |-> ran.accepted,
                 backend_calls |-> ran.backend_calls, dedup |-> ran.dedup]
    /\ prev_process_run' = process_run
    /\ UNCHANGED wall_clock
    /\ UNCHANGED otherThanProcess

\* Time passes between two processes.
ClockTick ==
    /\ wall_clock < MaxClock
    /\ wall_clock' = wall_clock + 1
    /\ UNCHANGED <<process_run, prev_process_run>>
    /\ UNCHANGED otherThanProcess

ProcessInit ==
    /\ wall_clock = 0
    /\ process_run = NoProcessRun
    /\ prev_process_run = NoProcessRun

ProcessIdle ==
    /\ wall_clock = 0
    /\ process_run = NoProcessRun
    /\ prev_process_run = NoProcessRun

ProcessNext == RunMonitorProcess \/ ClockTick

(***************************************************************************)
(* One ErrorAnalyzer that is presented a sequence of failures, as in a     *)
(* process that lives on.  accepted_at remembers for every key the time    *)
(* of its last acceptance (NeverAccepted: none); it is history the model   *)
(* keeps, the program stores only the last key.                            *)
(***************************************************************************)
NeverAccepted == -1

SequenceCommands == {cmd_foo, cmd_foo_1}
SequenceExitCodes == {0, 1}
SequenceKeys ==
    {command_key(c, e) : c \in SequenceCommands, e \in SequenceExitCodes}
SequenceTransports ==
    {[kind |-> "timeout", status |-> "0", body |-> "empty"],
     [kind |-> "response", status |-> "200", body |-> "answer"]}

NoFailure ==
    [presented |-> FALSE, key |-> NoKey, exit_code |-> 0, at |-> 0,
     auto_error_analysis |-> FALSE, fault |-> "none", accepted |-> FALSE,
     earlier |-> NeverAccepted, backend_calls |-> 0, prompt_built |-> FALSE,
     displayed |-> FALSE,
     dedup_before |-> [last_analyzed_command |-> NoKey, last_analyzed_time |-> 0]]

\* companion.monitor_command(command, exit_code) on the one analyzer
PresentFailure ==
    /\ \E command \in SequenceCommands, exit_code \in SequenceExitCodes,
          auto_error_analysis \in BOOLEAN, fault \in {"none", "context"},
          first \in SequenceTransports :
        LET ran == AICompanion_monitor_command(analyzer, command, exit_code,
                       auto_error_analysis, fault, T_openai, <<first, first>>,
                       sequence_clock)
            key == command_key(command, exit_code)
        IN  /\ analyzer' = ran.dedup
            /\ accepted_at' =
                   IF ran.accepted
                   THEN [accepted_at EXCEPT ![key] = sequence_clock]
                   ELSE accepted_at
            /\ last_failure' =
                   [presented |-> TRUE, key |-> key, exit_code |-> exit_code,
                    at |-> sequence_clock,
                    auto_error_analysis |-> auto_error_analysis,
                    fault |-> fault, accepted |-> ran.accepted,
                    earlier |-> accepted_at[key],
                    backend_calls |-> ran.backend_calls,
                    prompt_built |-> ran.prompt_built,
                    displayed |-> ran.displayed, dedup_before |-> analyzer]
    /\ UNCHANGED sequence_clock
    /\ UNCHANGED otherThanSequence

\* Time passes between two failures.
SequenceTick ==
    /\ sequence_clock < MaxClock
    /\ sequence_clock' = sequence_clock + 1
    /\ UNCHANGED <<analyzer, accepted_at, last_failure>>
    /\ UNCHANGED otherThanSequence

SequenceInit ==
    /\ sequence_clock = 0
    /\ analyzer = [last_analyzed_command |-> NoKey, last_analyzed_time |-> 0]
    /\ accepted_at = [k \in SequenceKeys |-> NeverAccepted]
    /\ last_failure = NoFailure

SequenceIdle ==
    /\ sequence_clock = 0
    /\ analyzer = [last_analyzed_command |-> NoKey, last_analyzed_time |-> 0]
    /\ accepted_at = [k \in SequenceKeys |-> NeverAccepted]
    /\ last_failure = NoFailure

SequenceNext == PresentFailure \/ SequenceTick

(***************************************************************************)
(* The two filters: the gate of the analyzer (ErrorAnalyzer._should_analyze *)
(* with the filter of should_analyze_command) and the filter of the shell  *)
(* hook _ai_companion_prompt_command.                                       *)
(***************************************************************************)
W_ai == <<"a", "i", "_">>
W_uai == <<"_", "a", "i", "_">>

cmd_return_1 == <<"r", "e", "t", "u", "r", "n", " ", "1">>
cmd_local_x == <<"l", "o", "c", "a", "l", " ", "x">>
cmd_export_a == <<"e", "x", "p", "o", "r", "t", " ", "A", "=", "1">>
cmd_ai_companion_prompt == <<"_", "a", "i", "_", "c", "o", "m", "p", "a", "n", "i", "o", "n", "_", "p", "r", "o", "m", "p", "t", "_", "c", "o", "m", "m", "a", "n", "d">>
cmd_cat_history == <<"c", "a", "t", " ", "h", "i", "s", "t", "o", "r", "y", ".", "t", "x", "t">>
cmd_ai_run == <<"a", "i", "_", "r", "u", "n", " ", "l", "s">>
cmd_train_ai_model == <<".", "/", "t", "r", "a", "i", "n", "_", "a", "i", "_", "m", "o", "d", "e", "l">>

\* The hook's test [[ != *"_ai_"* ]] && [[ != *"ai_"* ]] && [[ != *"history"* ]]
hook_filter_passes(last_command) ==
    /\ ~Contains(last_command, W_uai)
    /\ ~Contains(last_command, W_ai)
    /\ ~Contains(last_command, W_history)

GateCommands ==
    {cmd_foo, cmd_settle, cmd_python3_monitor, cmd_history, cmd_return_1,
     cmd_local_x, cmd_export_a, cmd_ai_companion_prompt, cmd_cat_history,
     cmd_ai_run, cmd_train_ai_model}
GateExitCodes == {0, 1, SIGINT_EXIT}
\* Inside the window, at its end, and the last second of the clock.
GateTimes == {0, DEDUP_WINDOW - 1, DEDUP_WINDOW, MaxClock}

\* The states an analyzer can be in when command, exit_code is presented:
\* new, or holding the key of a failure accepted at time 0.
GateStates(command, exit_code) ==
    {ErrorAnalyzer_init, update_analysis_cache(command, exit_code, 0),
     update_analysis_cache(cmd_foo, 1, 0)}

NoGateCall ==
    [done |-> FALSE, command |-> <<>>, exit_code |-> 0, at |-> 0,
     dedup |-> [last_analyzed_command |-> NoKey, last_analyzed_time |-> 0],
     accepted |-> FALSE, tooling_rejected |-> FALSE,
     hook_suppressed |-> FALSE]

\* ErrorAnalyzer._should_analyze(command, exit_code) at one time, and the
\* hook's filter on the same command
ShouldAnalyze ==
    /\ \E command \in GateCommands, exit_code \in GateExitCodes,
          current_time \in GateTimes :
        \E dedup \in GateStates(command, exit_code) :
            gate_call' =
                [done |-> TRUE, command |-> command, exit_code |-> exit_code,
                 at |-> current_time, dedup |-> dedup,
                 accepted |-> ErrorAnalyzer_should_analyze(dedup, command,
                                  exit_code, current_time),
                 tooling_rejected |-> ~should_analyze_command(command, 1),
                 hook_suppressed |-> ~hook_filter_passes(command)]
    /\ UNCHANGED otherThanGate

GateInit == gate_call = NoGateCall

GateIdle == gate_call = NoGateCall

GateNext == ShouldAnalyze

(***************************************************************************)
(* CommandHistoryAnalyzer.get_shell_history.  A command is a string here;  *)
(* "" is a line without a command, "history" a command that starts with    *)
(* history, "#ts" a line of ~/.bash_history that starts with #.            *)
(***************************************************************************)
\* Bound of the history specification: the largest limit asked for.
MaxLimit == 2
\* Bound of the history specification: the length of the log and of the
\* external sources.
MaxSourceLen == 2

INTERNAL_MERGE == 10

\* [x for x in list if keep(x)] for the three tests of the source
RECURSIVE keep_history_lines(_)
keep_history_lines(lines) ==
    IF lines = <<>> THEN <<>>
    ELSE (IF Head(lines) # "" /\ Head(lines) # "history"
          THEN <<Head(lines)>> ELSE <<>>)
         \o keep_history_lines(Tail(lines))

RECURSIVE keep_file_lines(_)
keep_file_lines(lines) ==
    IF lines = <<>> THEN <<>>
    ELSE (IF Head(lines) # "" /\ Head(lines) # "#ts"
          THEN <<Head(lines)>> ELSE <<>>)
         \o keep_file_lines(Tail(lines))

\* The loop that appends the internal commands not seen so far
RECURSIVE merge_internal(_, _)
merge_internal(history_commands, internal_commands) ==
    IF internal_commands = <<>> THEN history_commands
    ELSE IF \E i \in 1..Len(history_commands) :
                history_commands[i] = Head(internal_commands)
         THEN merge_internal(history_commands, Tail(internal_commands))
         ELSE merge_internal(Append(history_commands, Head(internal_commands)),
                             Tail(internal_commands))

\* CommandHistoryAnalyzer.get_shell_history(limit), limit > 0: log is the
\* commands of command_history, history_run what bash -c history gave,
\* history_file ~/.bash_history
get_shell_history(log, limit, history_run, history_file) ==
    LET from_history ==
            IF history_run.ok
            THEN keep_history_lines(LastK(history_run.lines, limit))
            ELSE <<>>
        file_commands == keep_file_lines(LastK(history_file.lines, limit))
        history_commands ==
            IF /\ Len(from_history) < limit
               /\ history_file.exists
               /\ Len(file_commands) > Len(from_history)
            THEN file_commands
            ELSE from_history
        merged ==
            IF log # <<>>
            THEN merge_internal(history_commands, LastK(log, INTERNAL_MERGE))
            ELSE history_commands
    IN  IF log # <<>> /\ Len(LastK(log, limit)) >= limit
        THEN LastK(log, limit)
        ELSE LastK(merged, limit)

HistoryRuns ==
    {[ok |-> FALSE, lines |-> <<>>]}
    \cup {[ok |-> TRUE, lines |-> l] : l \in SeqsUpTo({"ls", "history"}, MaxSourceLen)}
HistoryFiles ==
    {[exists |-> FALSE, lines |-> <<>>]}
    \cup {[exists |-> TRUE, lines |-> l] :
             l \in {<<"ls">>, <<"#ts", "ls">>, <<"ls", "ls">>}}

NoRecentCall ==
    [done |-> FALSE, log |-> <<>>, limit |-> 0,
     history_run |-> [ok |-> FALSE, lines |-> <<>>],
     history_file |-> [exists |-> FALSE, lines |-> <<>>], result |-> <<>>]

\* get_shell_history(limit) on an analyzer whose log holds the commands log
GetShellHistory ==
    /\ \E log \in SeqsUpTo({"ls", "cd"}, MaxSourceLen), limit \in 1..MaxLimit,
          history_run \in HistoryRuns, history_file \in HistoryFiles :
        recent_call' =
            [done |-> TRUE, log |-> log, limit |-> limit,
             history_run |-> history_run, history_file |-> history_file,
             result |-> get_shell_history(log, limit, history_run, history_file)]
    /\ UNCHANGED otherThanRecent

RecentInit == recent_call = NoRecentCall

RecentIdle == recent_call = NoRecentCall

RecentNext == GetShellHistory

(***************************************************************************)
(* CommandHistoryAnalyzer.analyze_command_sequence on command lists.       *)
(***************************************************************************)
\* Bound of the intent specification: the length of the command list.
MaxIntentLen == 4

cmd_sudo_ls == <<"s", "u", "d", "o", " ", "l", "s">>
cmd_cd_x == <<"c", "d", " ", "x">>
IntentCommands == {cmd_foo, cmd_sudo_ls, cmd_cd_x}

NoIntentCall == [done |-> FALSE, commands |-> <<>>, result |-> <<>>]

\* analyze_command_sequence(commands)
AnalyzeCommandSequence ==
    /\ \E commands \in SeqsUpTo(IntentCommands, MaxIntentLen) :
        intent_call' =
            [done |-> TRUE, commands |-> commands,
             result |-> analyze_command_sequence(commands)]
    /\ UNCHANGED otherThanIntent

IntentInit == intent_call = NoIntentCall

IntentIdle == intent_call = NoIntentCall

IntentNext == AnalyzeCommandSequence

(***************************************************************************)
(* ContextAnalyzer.get_full_context: the subprocess probes in the order    *)
(* they are started, each with the timeout its subprocess call passes      *)
(* (bounded FALSE: the call passes none and waits until the child exits).  *)
(* The ten which calls and the six systemctl calls are one probe each.     *)
(***************************************************************************)
probe_table ==
    <<[name |-> "uname", bounded |-> FALSE, timeout |-> 0],
      [name |-> "top", bounded |-> TRUE, timeout |-> 5],
      [name |-> "ps", bounded |-> FALSE, timeout |-> 0],
      [name |-> "git rev-parse", bounded |-> FALSE, timeout |-> 0],
      [name |-> "git branch", bounded |-> FALSE, timeout |-> 0],
      [name |-> "git status", bounded |-> FALSE, timeout |-> 0],
      [name |-> "git log", bounded |-> FALSE, timeout |-> 0],
      [name |-> "which", bounded |-> FALSE, timeout |-> 0],
      [name |-> "systemctl", bounded |-> FALSE, timeout |-> 0],
      [name |-> "ping", bounded |-> TRUE, timeout |-> 3],
      [name |-> "history", bounded |-> TRUE, timeout |-> 5]>>

\* Bound of the snapshot specification: the seconds counted while a probe
\* is waited for (MaxWait stands for MaxWait or more).
MaxWait == 6

\* The probe that follows probe i: git branch, status and log run only
\* inside a repository.  Len(probe_table) + 1: the snapshot is complete.
next_probe(i, in_repo) ==
    IF probe_table[i].name = "git rev-parse" /\ ~in_repo THEN i + 4 ELSE i + 1

NoSnapshot ==
    [state |-> "idle", probe |-> 0, hanging |-> 0, in_repo |-> FALSE,
     waited |-> 0, ticking |-> FALSE, defaults |-> {}]

\* get_full_context() is called; hanging is the probe whose child never
\* exits on its own (0: every child exits)
StartSnapshot ==
    /\ snapshot.state # "running"
    /\ \E hanging \in 0..Len(probe_table), in_repo \in BOOLEAN :
        snapshot' =
            [state |-> "running", probe |-> 1, hanging |-> hanging,
             in_repo |-> in_repo, waited |-> 0, ticking |-> FALSE,
             defaults |-> {}]
    /\ UNCHANGED otherThanSnapshot

\* The child of the running probe exits; subprocess.run returns
ProbeReturns ==
    /\ snapshot.state = "running"
    /\ snapshot.probe # snapshot.hanging
    /\ LET following == next_probe(snapshot.probe, snapshot.in_repo)
       IN  snapshot' =
               [snapshot EXCEPT
                   !.probe = following,
                   !.state = IF following > Len(probe_table) THEN "done"
                             ELSE "running"]
    /\ UNCHANGED otherThanSnapshot

\* A second passes while subprocess.run waits for a child that does not exit
ProbeWaits ==
    /\ snapshot.state = "running"
    /\ snapshot.probe = snapshot.hanging
    /\ \/ ~probe_table[snapshot.probe].bounded
       \/ snapshot.waited < probe_table[snapshot.probe].timeout
    /\ snapshot' =
           [snapshot EXCEPT
               !.waited = IF snapshot.waited < MaxWait THEN snapshot.waited + 1
                          ELSE MaxWait,
               !.ticking = ~snapshot.ticking]
    /\ UNCHANGED otherThanSnapshot

\* subprocess.run raises TimeoutExpired, the except branch gives the default
ProbeTimedOut ==
    /\ snapshot.state = "running"
    /\ snapshot.probe = snapshot.hanging
    /\ probe_table[snapshot.probe].bounded
    /\ snapshot.waited >= probe_table[snapshot.probe].timeout
    /\ LET following == next_probe(snapshot.probe, snapshot.in_repo)
       IN  snapshot' =
               [snapshot EXCEPT
                   !.probe = following,
                   !.hanging = 0,
                   !.waited = 0,
                   !.defaults = snapshot.defaults
                                    \cup {probe_table[snapshot.probe].name},
                   !.state = IF following > Len(probe_table) THEN "done"
                             ELSE "running"]
    /\ UNCHANGED otherThanSnapshot

SnapshotInit == snapshot = NoSnapshot

SnapshotIdle == snapshot = NoSnapshot

SnapshotNext == StartSnapshot \/ ProbeReturns \/ ProbeWaits \/ ProbeTimedOut

(***************************************************************************)
(* One interactive shell session with the hook installed: the wrapper      *)
(* ai_exec, ai_run with ai_analyze_error, the PROMPT_COMMAND hook          *)
(* _ai_companion_prompt_command, and the analysis process the hook waits   *)
(* for (main --monitor, AICompanion.monitor_command, get_full_context).    *)
(* The session has no PROMPT_COMMAND of its own before the hook is added.  *)
(***************************************************************************)
\* Bounds of the session specification: the commands typed, and the times
\* the entry point is started for one of them.
MaxSessionCommands == 2
MaxInvocations == 2

W_ai_run == <<"a", "i", "_", "r", "u", "n", " ">>
cmd_make == <<"m", "a", "k", "e">>
cmd_ls == <<"l", "s">>

\* all_commands of _ai_setup_command_wrappers, as far as the session's
\* commands use them: alias "$cmd"="ai_exec $cmd"
wrapped_commands == {cmd_make, cmd_ls, <<"c", "a", "t">>}

is_wrapped(command) ==
    \E cmd \in wrapped_commands :
        \/ command = cmd
        \/ StartsWith(command, cmd \o <<" ">>)

\* How bash runs the typed line: through ai_run, through the alias of a
\* wrapped command, or directly.
run_mode(command) ==
    IF StartsWith(command, W_ai_run) THEN "ai_run"
    ELSE IF is_wrapped(command) THEN "ai_exec"
    ELSE "plain"

\* "$*" of ai_run: the line without the leading ai_run
ai_run_args(command) == SubSeq(command, Len(W_ai_run) + 1, Len(command))

NoDelivery ==
    [by |-> "none", command |-> <<>>, exit_code |-> 0, stderr_of |-> 0,
     argc |-> 0, for |-> 0]

\* ai_exec: the capture file is emptied, then holds what the command
\* writes to stderr.  The file is named by the number of the command
\* whose text it holds, 0 when it is empty.
ai_exec(n, writes) == IF writes THEN n ELSE 0

\* _ai_companion_prompt_command up to the start of python3: $? is the
\* status of the last foreground command and history 1 its text.  A
\* non-empty capture file is read and emptied; otherwise the hook makes
\* up a message of its own (stderr_of 0).
prompt_command(s) ==
    IF /\ s.exit_code # 0
       /\ s.exit_code # SIGINT_EXIT
       /\ hook_filter_passes(s.last_command)
    THEN [s EXCEPT
             !.state = "Reporting",
             !.stage = "launched",
             !.capture = 0,
             !.invocations = s.invocations + 1,
             !.delivery =
                 [by |-> "prompt_command", command |-> s.last_command,
                  exit_code |-> s.exit_code, stderr_of |-> s.capture,
                  argc |-> 3, for |-> s.ran]]
    ELSE s

\* ai_analyze_error up to the start of python3, after ai_exec set
\* AI_LAST_COMMAND and AI_LAST_EXIT_CODE.  When it starts nothing, ai_run
\* returns 0 and the prompt hook sees that status.
ai_analyze_error(s, args, exit_code) ==
    IF exit_code # 0 /\ exit_code # SIGINT_EXIT /\ args # <<>>
    THEN [s EXCEPT
             !.state = "Reporting",
             !.stage = "launched",
             !.invocations = s.invocations + 1,
             !.delivery =
                 [by |-> "ai_analyze_error", command |-> args,
                  exit_code |-> exit_code, stderr_of |-> s.capture,
                  argc |-> 3, for |-> s.ran]]
    ELSE prompt_command([s EXCEPT !.exit_code = 0])

ShellCommands == {cmd_foo, cmd_make, cmd_export_a, cmd_cat_history, cmd_ai_run}
ShellExitCodes == {0, 1, SIGINT_EXIT}

NoSession ==
    [state |-> "Idle", stage |-> "none", ran |-> 0, last_command |-> <<>>,
     exit_code |-> 0, capture |-> 0, invocations |-> 0,
     delivery |-> NoDelivery, outcome |-> "none"]

\* The user types a command line; it runs to its end and bash runs
\* PROMPT_COMMAND before the next prompt.
RunCommand ==
    /\ session.state = "Idle"
    /\ session.ran < MaxSessionCommands
    /\ \E command \in ShellCommands, exit_code \in ShellExitCodes,
          writes \in BOOLEAN :
        LET n == session.ran + 1
            mode == run_mode(command)
            ran == [session EXCEPT
                       !.ran = n,
                       !.last_command = command,
                       !.exit_code = exit_code,
                       !.capture = IF mode = "plain" THEN session.capture
                                   ELSE ai_exec(n, writes),
                       !.invocations = 0,
                       !.delivery = NoDelivery,
                       !.outcome = "none"]
        IN  session' =
                IF mode = "ai_run"
                THEN ai_analyze_error(ran, ai_run_args(command), exit_code)
                ELSE prompt_command(ran)
    /\ UNCHANGED otherThanShell
    /\ UNCHANGED snapshotVars

\* The user presses Enter on an empty line: nothing runs, $? and history 1
\* stay, and bash runs PROMPT_COMMAND again.
EmptyEnter ==
    /\ session.state = "Idle"
    /\ session.ran > 0
    /\ session.invocations < MaxInvocations
    /\ session' = prompt_command(session)
    /\ UNCHANGED otherThanShell
    /\ UNCHANGED snapshotVars

\* Back at the prompt: python3 ... 2>/dev/null || true has returned.
\* ai_analyze_error then resets its state and empties the capture file,
\* and ai_run returns 0.
back_to_prompt(s, outcome) ==
    [s EXCEPT
        !.state = "Idle",
        !.stage = "none",
        !.outcome = outcome,
        !.capture = IF s.delivery.by = "ai_analyze_error" THEN 0
                    ELSE s.capture,
        !.exit_code = IF s.delivery.by = "ai_analyze_error" THEN 0
                      ELSE s.exit_code]

\* python3 cannot run the script and exits non-zero, or main catches the
\* exception of a configuration that cannot be loaded and returns.
AnalysisAborts ==
    /\ session.state = "Reporting"
    /\ session.stage = "launched"
    /\ \E outcome \in {"nonzero_exit", "config_error"} :
        session' = back_to_prompt(session, outcome)
    /\ UNCHANGED otherThanShell
    /\ UNCHANGED snapshotVars

\* monitor_command in a new process: the analyzer's gate rejects the
\* failure, analyze_error returns None and main returns.
AnalysisRejected ==
    /\ session.state = "Reporting"
    /\ session.stage = "launched"
    /\ ~ErrorAnalyzer_should_analyze(
            [last_analyzed_command |-> NoKey, last_analyzed_time |-> 0],
            session.delivery.command, session.delivery.exit_code, 0)
    /\ session' = back_to_prompt(session, "rejected")
    /\ UNCHANGED otherThanShell
    /\ UNCHANGED snapshotVars

\* The gate accepts and analyze_error calls get_full_context()
AnalysisGathersContext ==
    /\ session.state = "Reporting"
    /\ session.stage = "launched"
    /\ ErrorAnalyzer_should_analyze(
           [last_analyzed_command |-> NoKey, last_analyzed_time |-> 0],
           session.delivery.command, session.delivery.exit_code, 0)
    /\ session' = [session EXCEPT !.stage = "context"]
    /\ \E hanging \in 0..Len(probe_table), in_repo \in BOOLEAN :
        snapshot' =
            [state |-> "running", probe |-> 1, hanging |-> hanging,
             in_repo |-> in_repo, waited |-> 0, ticking |-> FALSE,
             defaults |-> {}]
    /\ UNCHANGED otherThanShell

\* The context is complete; call_api returns an answer or the text of a
\* transport error, monitor_command prints it and main returns.
AnalysisExits ==
    /\ session.state = "Reporting"
    /\ session.stage = "context"
    /\ snapshot.state = "done"
    /\ \E outcome \in {"success", "transport_error"} :
        session' = back_to_prompt(session, outcome)
    /\ snapshot' = NoSnapshot
    /\ UNCHANGED otherThanShell

ShellInit ==
    /\ session = NoSession
    /\ snapshot = NoSnapshot

ShellIdle == session = NoSession

ShellNext ==
    \/ RunCommand
    \/ EmptyEnter
    \/ AnalysisAborts
    \/ AnalysisRejected
    \/ AnalysisGathersContext
    \/ ProbeReturns
    \/ ProbeWaits
    \/ ProbeTimedOut
    \/ AnalysisExits

(***************************************************************************)
(* Specifications, one per component: the component starts in its initial  *)
(* states and takes its steps, every other component stays idle.           *)
(***************************************************************************)
InitDedup ==
    /\ DedupInit
    /\ HistoryIdle
    /\ ClassifyIdle
    /\ DirectoryIdle
    /\ StatusIdle
    /\ CodecIdle
    /\ ConfigIdle
    /\ PromptIdle
    /\ CliIdle
    /\ HookIdle
    /\ ManagerIdle
    /\ ProviderIdle
    /\ InvocationIdle
    /\ ProcessIdle
    /\ SequenceIdle
    /\ GateIdle
    /\ RecentIdle
    /\ IntentIdle
    /\ SnapshotIdle
    /\ ShellIdle

SpecDedup == InitDedup /\ [][DedupNext]_vars

InitHistory ==
    /\ HistoryInit
    /\ DedupInit
    /\ ClassifyIdle
    /\ DirectoryIdle
    /\ StatusIdle
    /\ CodecIdle
    /\ ConfigIdle
    /\ PromptIdle
    /\ CliIdle
    /\ HookIdle
    /\ ManagerIdle
    /\ ProviderIdle
    /\ InvocationIdle
    /\ ProcessIdle
    /\ SequenceIdle
    /\ GateIdle
    /\ RecentIdle
    /\ IntentIdle
    /\ SnapshotIdle
    /\ ShellIdle

SpecHistory == InitHistory /\ [][HistoryNext]_vars

InitClassify ==
    /\ ClassifyInit
    /\ DedupInit
    /\ HistoryIdle
    /\ DirectoryIdle
    /\ StatusIdle
    /\ CodecIdle
    /\ ConfigIdle
    /\ PromptIdle
    /\ CliIdle
    /\ HookIdle
    /\ ManagerIdle
    /\ ProviderIdle
    /\ InvocationIdle
    /\ ProcessIdle
    /\ SequenceIdle
    /\ GateIdle
    /\ RecentIdle
    /\ IntentIdle
    /\ SnapshotIdle
    /\ ShellIdle

SpecClassify == InitClassify /\ [][ClassifyNext]_vars

InitDirectory ==
    /\ DirectoryInit
    /\ DedupInit
    /\ HistoryIdle
    /\ ClassifyIdle
    /\ StatusIdle
    /\ CodecIdle
    /\ ConfigIdle
    /\ PromptIdle
    /\ CliIdle
    /\ HookIdle
    /\ ManagerIdle
    /\ ProviderIdle
    /\ InvocationIdle
    /\ ProcessIdle
    /\ SequenceIdle
    /\ GateIdle
    /\ RecentIdle
    /\ IntentIdle
    /\ SnapshotIdle
    /\ ShellIdle

SpecDirectory == InitDirectory /\ [][DirectoryNext]_vars

InitStatus ==
    /\ StatusInit
    /\ DedupInit
    /\ HistoryIdle
    /\ ClassifyIdle
    /\ DirectoryIdle
    /\ CodecIdle
    /\ ConfigIdle
    /\ PromptIdle
    /\ CliIdle
    /\ HookIdle
    /\ ManagerIdle
    /\ ProviderIdle
    /\ InvocationIdle
    /\ ProcessIdle
    /\ SequenceIdle
    /\ GateIdle
    /\ RecentIdle
    /\ IntentIdle
    /\ SnapshotIdle
    /\ ShellIdle

SpecStatus == InitStatus /\ [][StatusNext]_vars

InitCodec ==
    /\ CodecInit
    /\ DedupInit
    /\ HistoryIdle
    /\ ClassifyIdle
    /\ DirectoryIdle
    /\ StatusIdle
    /\ ConfigIdle
    /\ PromptIdle
    /\ CliIdle
    /\ HookIdle
    /\ ManagerIdle
    /\ ProviderIdle
    /\ InvocationIdle
    /\ ProcessIdle
    /\ SequenceIdle
    /\ GateIdle
    /\ RecentIdle
    /\ IntentIdle
    /\ SnapshotIdle
    /\ ShellIdle

SpecCodec == InitCodec /\ [][CodecNext]_vars

InitConfig ==
    /\ ConfigInit
    /\ DedupInit
    /\ HistoryIdle
    /\ ClassifyIdle
    /\ DirectoryIdle
    /\ StatusIdle
    /\ CodecIdle
    /\ PromptIdle
    /\ CliIdle
    /\ HookIdle
    /\ ManagerIdle
    /\ ProviderIdle
    /\ InvocationIdle
    /\ ProcessIdle
    /\ SequenceIdle
    /\ GateIdle
    /\ RecentIdle
    /\ IntentIdle
    /\ SnapshotIdle
    /\ ShellIdle

SpecConfig == InitConfig /\ [][ConfigNext]_vars

InitPrompt ==
    /\ PromptInit
    /\ DedupInit
    /\ HistoryIdle
    /\ ClassifyIdle
    /\ DirectoryIdle
    /\ StatusIdle
    /\ CodecIdle
    /\ CliIdle
    /\ HookIdle
    /\ ManagerIdle
    /\ ProviderIdle
    /\ InvocationIdle
    /\ ProcessIdle
    /\ SequenceIdle
    /\ GateIdle
    /\ RecentIdle
    /\ IntentIdle
    /\ SnapshotIdle
    /\ ShellIdle

SpecPrompt == InitPrompt /\ [][PromptNext]_vars

InitCli ==
    /\ CliInit
    /\ DedupInit
    /\ HistoryIdle
    /\ ClassifyIdle
    /\ DirectoryIdle
    /\ StatusIdle
    /\ CodecIdle
    /\ PromptIdle
    /\ HookIdle
    /\ ManagerIdle
    /\ ProviderIdle
    /\ InvocationIdle
    /\ ProcessIdle
    /\ SequenceIdle
    /\ GateIdle
    /\ RecentIdle
    /\ IntentIdle
    /\ SnapshotIdle
    /\ ShellIdle

SpecCli == InitCli /\ [][CliNext]_vars

InitHook ==
    /\ HookInit
    /\ DedupInit
    /\ HistoryIdle
    /\ ClassifyIdle
    /\ DirectoryIdle
    /\ StatusIdle
    /\ CodecIdle
    /\ ConfigIdle
    /\ PromptIdle
    /\ CliIdle
    /\ ManagerIdle
    /\ ProviderIdle
    /\ InvocationIdle
    /\ ProcessIdle
    /\ SequenceIdle
    /\ GateIdle
    /\ RecentIdle
    /\ IntentIdle
    /\ SnapshotIdle
    /\ ShellIdle

SpecHook == InitHook /\ [][HookNext]_vars

InitManager ==
    /\ ManagerInit
    /\ DedupInit
    /\ HistoryIdle
    /\ ClassifyIdle
    /\ DirectoryIdle
    /\ StatusIdle
    /\ CodecIdle
    /\ PromptIdle
    /\ CliIdle
    /\ HookIdle
    /\ ProviderIdle
    /\ InvocationIdle
    /\ ProcessIdle
    /\ SequenceIdle
    /\ GateIdle
    /\ RecentIdle
    /\ IntentIdle
    /\ SnapshotIdle
    /\ ShellIdle

SpecManager == InitManager /\ [][ManagerNext]_vars

InitProvider ==
    /\ ProviderInit
    /\ DedupInit
    /\ HistoryIdle
    /\ ClassifyIdle
    /\ DirectoryIdle
    /\ StatusIdle
    /\ CodecIdle
    /\ ConfigIdle
    /\ PromptIdle
    /\ CliIdle
    /\ HookIdle
    /\ ManagerIdle
    /\ InvocationIdle
    /\ ProcessIdle
    /\ SequenceIdle
    /\ GateIdle
    /\ RecentIdle
    /\ IntentIdle
    /\ SnapshotIdle
    /\ ShellIdle

SpecProvider == InitProvider /\ [][ProviderNext]_vars

InitInvocation ==
    /\ InvocationInit
    /\ DedupInit
    /\ HistoryIdle
    /\ ClassifyIdle
    /\ DirectoryIdle
    /\ StatusIdle
    /\ CodecIdle
    /\ ConfigIdle
    /\ PromptIdle
    /\ CliIdle
    /\ HookIdle
    /\ ManagerIdle
    /\ ProviderIdle
    /\ ProcessIdle
    /\ SequenceIdle
    /\ GateIdle
    /\ RecentIdle
    /\ IntentIdle
    /\ SnapshotIdle
    /\ ShellIdle

SpecInvocation == InitInvocation /\ [][InvocationNext]_vars

InitProcess ==
    /\ ProcessInit
    /\ DedupInit
    /\ HistoryIdle
    /\ ClassifyIdle
    /\ DirectoryIdle
    /\ StatusIdle
    /\ CodecIdle
    /\ ConfigIdle
    /\ PromptIdle
    /\ CliIdle
    /\ HookIdle
    /\ ManagerIdle
    /\ ProviderIdle
    /\ InvocationIdle
    /\ SequenceIdle
    /\ GateIdle
    /\ RecentIdle
    /\ IntentIdle
    /\ SnapshotIdle
    /\ ShellIdle

SpecProcess == InitProcess /\ [][ProcessNext]_vars

InitSequence ==
    /\ SequenceInit
    /\ DedupInit
    /\ HistoryIdle
    /\ ClassifyIdle
    /\ DirectoryIdle
    /\ StatusIdle
    /\ CodecIdle
    /\ ConfigIdle
    /\ PromptIdle
    /\ CliIdle
    /\ HookIdle
    /\ ManagerIdle
    /\ ProviderIdle
    /\ InvocationIdle
    /\ ProcessIdle
    /\ GateIdle
    /\ RecentIdle
    /\ IntentIdle
    /\ SnapshotIdle
    /\ ShellIdle

SpecSequence == InitSequence /\ [][SequenceNext]_vars

InitGate ==
    /\ GateInit
    /\ DedupInit
    /\ HistoryIdle
    /\ ClassifyIdle
    /\ DirectoryIdle
    /\ StatusIdle
    /\ CodecIdle
    /\ ConfigIdle
    /\ PromptIdle
    /\ CliIdle
    /\ HookIdle
    /\ ManagerIdle
    /\ ProviderIdle
    /\ InvocationIdle
    /\ ProcessIdle
    /\ SequenceIdle
    /\ RecentIdle
    /\ IntentIdle
    /\ SnapshotIdle
    /\ ShellIdle

SpecGate == InitGate /\ [][GateNext]_vars

InitRecent ==
    /\ RecentInit
    /\ DedupInit
    /\ HistoryIdle
    /\ ClassifyIdle
    /\ DirectoryIdle
    /\ StatusIdle
    /\ CodecIdle
    /\ ConfigIdle
    /\ PromptIdle
    /\ CliIdle
    /\ HookIdle
    /\ ManagerIdle
    /\ ProviderIdle
    /\ InvocationIdle
    /\ ProcessIdle
    /\ SequenceIdle
    /\ GateIdle
    /\ IntentIdle
    /\ SnapshotIdle
    /\ ShellIdle

SpecRecent == InitRecent /\ [][RecentNext]_vars

InitIntent ==
    /\ IntentInit
    /\ DedupInit
    /\ HistoryIdle
    /\ ClassifyIdle
    /\ DirectoryIdle
    /\ StatusIdle
    /\ CodecIdle
    /\ ConfigIdle
    /\ PromptIdle
    /\ CliIdle
    /\ HookIdle
    /\ ManagerIdle
    /\ ProviderIdle
    /\ InvocationIdle
    /\ ProcessIdle
    /\ SequenceIdle
    /\ GateIdle
    /\ RecentIdle
    /\ SnapshotIdle
    /\ ShellIdle

SpecIntent == InitIntent /\ [][IntentNext]_vars

InitSnapshot ==
    /\ SnapshotInit
    /\ DedupInit
    /\ HistoryIdle
    /\ ClassifyIdle
    /\ DirectoryIdle
    /\ StatusIdle
    /\ CodecIdle
    /\ ConfigIdle
    /\ PromptIdle
    /\ CliIdle
    /\ HookIdle
    /\ ManagerIdle
    /\ ProviderIdle
    /\ InvocationIdle
    /\ ProcessIdle
    /\ SequenceIdle
    /\ GateIdle
    /\ RecentIdle
    /\ IntentIdle
    /\ ShellIdle

SpecSnapshot == InitSnapshot /\ [][SnapshotNext]_vars

\* The same with the steps the operating system is sure to schedule.
FairSpecSnapshot ==
    /\ InitSnapshot
    /\ [][SnapshotNext]_vars
    /\ WF_vars(ProbeReturns)
    /\ WF_vars(ProbeWaits)
    /\ WF_vars(ProbeTimedOut)

InitShell ==
    /\ ShellInit
    /\ DedupInit
    /\ HistoryIdle
    /\ ClassifyIdle
    /\ DirectoryIdle
    /\ StatusIdle
    /\ CodecIdle
    /\ ConfigIdle
    /\ PromptIdle
    /\ CliIdle
    /\ HookIdle
    /\ ManagerIdle
    /\ ProviderIdle
    /\ InvocationIdle
    /\ ProcessIdle
    /\ SequenceIdle
    /\ GateIdle
    /\ RecentIdle
    /\ IntentIdle

SpecShell == InitShell /\ [][ShellNext]_vars

\* The same with the steps the operating system is sure to schedule.
FairSpecShell ==
    /\ InitShell
    /\ [][ShellNext]_vars
    /\ WF_vars(AnalysisAborts)
    /\ WF_vars(AnalysisRejected)
    /\ WF_vars(AnalysisGathersContext)
    /\ WF_vars(ProbeReturns)
    /\ WF_vars(ProbeWaits)
    /\ WF_vars(ProbeTimedOut)
    /\ WF_vars(AnalysisExits)

(***************************************************************************)
(* Properties.                                                             *)
(***************************************************************************)
\* The commands of DedupCommands that are not internal tooling.
PassingCommands == {cmd_foo, cmd_foo_1}

SameFailureAsCached(call) ==
    /\ call.prev_key = call.command \o <<"_">> \o IntToStr(call.exit_code)
    /\ call.command \in PassingCommands
    /\ call.exit_code # 130

\* C1: in one ErrorAnalyzer, when the cache holds the key of a failure that
\* was analyzed at time t (a command that passes the internal-tooling filter,
\* exit code not 130), presenting the same (command, exit code) less than 5
\* seconds after t (for instance at t+2) is rejected and analyze_error
\* returns None, and presenting it 5 or more seconds after t (for instance
\* at t+6) is accepted.
C1_SuppressionWindow ==
    SameFailureAsCached(last_call) =>
        /\ (last_call.at - last_call.prev_time < 5) =>
                (~last_call.accepted /\ last_call.result = "None"
                 /\ ~last_call.backend)
        /\ (last_call.at - last_call.prev_time = 2) => ~last_call.accepted
        /\ (last_call.at - last_call.prev_time >= 5) => last_call.accepted
        /\ (last_call.at - last_call.prev_time = 6) => last_call.accepted

\* The failure analyzed at t was rejected at t+2 and accepted at t+6.
C1_Witness ==
    /\ SameFailureAsCached(prev_call)
    /\ SameFailureAsCached(last_call)
    /\ prev_call.prev_time = last_call.prev_time
    /\ prev_call.at = prev_call.prev_time + 2
    /\ ~prev_call.accepted
    /\ last_call.at = last_call.prev_time + 6
    /\ last_call.accepted

\* C2: a failure with exit code 130 is never accepted, whatever the command,
\* the time and the cache: analyze_error returns None and the backend is not
\* called.
C2_InterruptNeverAnalyzed ==
    (last_call # NoCall /\ last_call.exit_code = 130) =>
        /\ ~last_call.accepted
        /\ last_call.result = "None"
        /\ ~last_call.backend
        /\ last_analyzed_command = last_call.prev_key
        /\ last_analyzed_time = last_call.prev_time

\* Exit code 130 presented for a command that passes the filter while the
\* cache holds another key, so that only the exit code can reject it.
C2_Witness ==
    /\ last_call.exit_code = 130
    /\ last_call.command = cmd_foo
    /\ last_call.prev_key # NoKey
    /\ last_call.prev_key # cmd_foo \o <<"_", "1", "3", "0">>
    /\ ~last_call.accepted

\* C3: with cap 100, after 101 add_command calls the log holds exactly 50
\* entries, the 50 most recently appended events in their original order;
\* for every cap and after any number of calls the log is a contiguous
\* suffix of the appended sequence and is never longer than the cap.
C3_HistoryBounded ==
    /\ Len(command_history) <= max_history
    /\ Len(command_history) <= appended
    /\ \A i \in 1..Len(command_history) :
            command_history[i] = appended - Len(command_history) + i
    /\ (max_history = 100 /\ appended = 101) =>
            /\ Len(command_history) = 50
            /\ command_history = [i \in 1..50 |-> 51 + i]

\* The 101st append on a cap of 100 has happened.
C3_Witness ==
    /\ max_history = 100
    /\ appended = 101
    /\ Len(command_history) = 50
    /\ command_history[1] = 52
    /\ command_history[50] = 101

Classified == pattern_result # NotClassified

\* The count the result gives to category k (0 when the category is absent).
ResultCount(k) ==
    IF \E i \in 1..Len(pattern_result) : pattern_result[i].name = command_patterns[k].name
    THEN pattern_result[CHOOSE i \in 1..Len(pattern_result) :
                            pattern_result[i].name = command_patterns[k].name].count
    ELSE 0

\* Category k is the first one, in table order, with a program name that is
\* a prefix of the first word of the command.
WinsCommand(command, k) ==
    /\ \E j \in 1..Len(command_patterns[k].programs) :
           StartsWith(first_word(command), command_patterns[k].programs[j])
    /\ \A k2 \in 1..(k - 1) :
           \A j \in 1..Len(command_patterns[k2].programs) :
               ~StartsWith(first_word(command), command_patterns[k2].programs[j])

RECURSIVE SumCounts(_)
SumCounts(result) ==
    IF Len(result) = 0 THEN 0 ELSE result[1].count + SumCounts(Tail(result))

GitNpmPositions ==
    {i \in 1..Len(classify_input) :
        classify_input[i] \in {cmd_git_add, cmd_git_commit, cmd_npm_install}}

\* C6: analyze_command_patterns counts every command in at most one
\* category, the first in table order with a program name that is a prefix
\* of the command's first word: every category's count is the number of
\* commands it wins, the counts sum to at most the number of commands, and
\* the git and npm commands are all counted under dev_tools (count 3, so at
\* least 2, for the list git add, git commit, npm install).
C6_FirstCategoryWins ==
    Classified =>
        /\ \A k \in 1..Len(command_patterns) :
               /\ Cardinality({i \in 1..Len(pattern_result) :
                      pattern_result[i].name = command_patterns[k].name}) <= 1
               /\ ResultCount(k) =
                      Cardinality({i \in 1..Len(classify_input) :
                                      WinsCommand(classify_input[i], k)})
        /\ \A i \in 1..Len(pattern_result) :
               /\ pattern_result[i].count > 0
               /\ \E k \in 1..Len(command_patterns) :
                      pattern_result[i].name = command_patterns[k].name
        /\ SumCounts(pattern_result) <= Len(classify_input)
        /\ ResultCount(6) >= Cardinality(GitNpmPositions)
        /\ (classify_input = <<cmd_git_add, cmd_git_commit, cmd_npm_install>>) =>
               ResultCount(6) >= 2

\* The documented example has been classified: one dev_tools bucket.
C6_Witness ==
    /\ classify_input = <<cmd_git_add, cmd_git_commit, cmd_npm_install>>
    /\ pattern_result = <<[name |-> "dev_tools", count |-> 3]>>

DirQueried == directory_info # NotQueried

PythonIndicators == {"requirements.txt", "setup.py", "pyproject.toml", "main.py"}
NodeIndicators == {"package.json", "node_modules"}
WebIndicators == {"index.html", "index.php"}
DockerIndicators == {"Dockerfile", "docker-compose.yml"}
GitIndicators == {".git"}
ConfigIndicators == {"nginx.conf", "apache.conf", ".env"}

\* The documented priority order with the indicator set of every type.
PriorityOrder == <<
    <<"python", PythonIndicators>>, <<"node", NodeIndicators>>,
    <<"web", WebIndicators>>, <<"docker", DockerIndicators>>,
    <<"git", GitIndicators>>, <<"config", ConfigIndicators>> >>

\* C7: the project type is the first type, in the order python, node, web,
\* docker, git, config, with an indicator file in the directory: package.json
\* (and no python indicator) gives node, requirements.txt together with
\* package.json gives python, no indicator file gives unknown, and key_files
\* holds exactly the indicator files of the winning type that are present.
C7_FirstMatchWins ==
    (DirQueried /\ dir_listing.ok) =>
        LET files == dir_listing.files
            keys == {directory_info.key_files[i] :
                        i \in 1..Len(directory_info.key_files)}
        IN  /\ \A k \in 1..6 :
                (directory_info.project_type = PriorityOrder[k][1]) <=>
                    /\ files \cap PriorityOrder[k][2] # {}
                    /\ \A k2 \in 1..(k - 1) : files \cap PriorityOrder[k2][2] = {}
            /\ (\A k \in 1..6 : files \cap PriorityOrder[k][2] = {}) <=>
                    directory_info.project_type = "unknown"
            /\ ("package.json" \in files /\ files \cap PythonIndicators = {}) =>
                    directory_info.project_type = "node"
            /\ ({"requirements.txt", "package.json"} \subseteq files) =>
                    directory_info.project_type = "python"
            /\ directory_info.project_type = "unknown" => keys = {}
            /\ \A k \in 1..6 :
                directory_info.project_type = PriorityOrder[k][1] =>
                    keys = files \cap PriorityOrder[k][2]

\* A directory with requirements.txt and package.json has been classified.
C7_Witness ==
    /\ dir_listing.ok
    /\ dir_listing.files = {"requirements.txt", "package.json", ".env"}
    /\ directory_info.project_type = "python"
    /\ directory_info.key_files = <<"requirements.txt">>

StatusTaken == system_status # NoStatus

MemoryFailed == ~probes.mem.ok \/ probes.mem.total = 0
DiskFailed == ~probes.disk.ok \/ probes.disk.total = 0
CpuFailed == probes.top.outcome # "idle"
ProcessesFailed == probes.ps.outcome # "lines"

\* C8: in get_system_status, whichever of the four probes (memory, disk,
\* CPU, process count) fail, every field of a failed probe is 0 and every
\* field of a probe that succeeded holds its measured value, and the
\* operation does not raise.
C8_ProbeFailureIsLocal ==
    StatusTaken =>
        /\ ~system_status.raised
        /\ IF MemoryFailed
           THEN /\ system_status.memory_percent = 0
                /\ system_status.memory_total_gb = 0
                /\ system_status.memory_available_gb = 0
           ELSE /\ system_status.memory_percent =
                       ((probes.mem.total - probes.mem.available) * 100)
                           \div probes.mem.total
                /\ system_status.memory_total_gb = probes.mem.total
                /\ system_status.memory_available_gb = probes.mem.available
        /\ IF DiskFailed
           THEN /\ system_status.disk_percent = 0
                /\ system_status.disk_total_gb = 0
                /\ system_status.disk_free_gb = 0
           ELSE /\ system_status.disk_percent =
                       (probes.disk.used * 100) \div probes.disk.total
                /\ system_status.disk_total_gb = probes.disk.total
                /\ system_status.disk_free_gb = probes.disk.total - probes.disk.used
        /\ IF CpuFailed
           THEN system_status.cpu_percent = 0
           ELSE system_status.cpu_percent = 100 - probes.top.idle
        /\ IF ProcessesFailed
           THEN system_status.processes = 0
           ELSE system_status.processes = probes.ps.lines - 1

\* The CPU probe failed by an exception while the three others measured.
C8_Witness ==
    /\ StatusTaken
    /\ probes.top.outcome = "raise"
    /\ ~MemoryFailed /\ ~DiskFailed /\ ~ProcessesFailed
    /\ system_status.cpu_percent = 0
    /\ system_status.memory_total_gb = 2
    /\ system_status.disk_percent = 50
    /\ system_status.processes = 3

\* C4: the stderr text the hook encodes with base64 comes back from the
\* monitor entry point's decoder as exactly the same text, whatever the
\* text (embedded newlines and NUL bytes included).
C4_RoundTrip ==
    (delivered.done /\ delivered.used_base64) =>
        utf8_encode(delivered.decoded_stderr) = delivered.stderr_output

\* C9: loading the configuration never raises; a missing file gives the
\* built-in defaults, and so does every malformed file: invalid JSON,
\* undecodable text, or valid JSON that is not an object.
C9_LoadNeverRaises ==
    (loaded # NotLoaded) =>
        /\ loaded.raised = "none"
        /\ (config_file.kind \in {"missing", "invalid_json", "undecodable",
                                  "non_object"}) =>
                loaded.config = default_config


\* C5: the prompt is a function of the failure event and the context alone:
\* two prompts built from the same event and the same context are equal.
C5_PromptDeterministic ==
    (/\ last_prompt.built /\ prev_prompt.built
     /\ last_prompt.event = prev_prompt.event
     /\ last_prompt.context = prev_prompt.context)
        => /\ last_prompt.raised = prev_prompt.raised
           /\ last_prompt.prompt = prev_prompt.prompt

\* C10: an invocation of the command line that succeeds ends with exit
\* status zero, and one that fails on a configuration error (no usable
\* active service, invalid configuration field, unknown service name) ends
\* with a non-zero exit status.
C10_ExitStatus ==
    /\ (cli_run.outcome = "success") => (cli_run.exit_status = EXIT_OK)
    /\ (cli_run.outcome = "config_error") => (cli_run.exit_status # EXIT_OK)

\* The hook blocks of a file: its start marker lines.
HookBlocks(lines) == Cardinality({i \in 1..Len(lines) : lines[i] = "start"})

HasHookName(lines) == \E i \in 1..Len(lines) : holds_hook_name(lines[i])

\* The lines of a file that are not of the given kinds, in their order.
RECURSIVE WithoutLines(_, _)
WithoutLines(lines, kinds) ==
    IF lines = <<>> THEN <<>>
    ELSE (IF Head(lines) \in kinds THEN <<>> ELSE <<Head(lines)>>)
         \o WithoutLines(Tail(lines), kinds)

\* C11: install on a file that already holds the hook delimiter leaves the
\* file unchanged; the file never holds more than one hook block; a
\* successful uninstall removes the block between the delimiter pair, and
\* nothing else: every other line stays, in order, and of the block only
\* the newline behind the end delimiter is left, as an empty line.
C11_InstallIdempotent ==
    /\ (last_hook_op.op = "install" /\ HasHookName(last_hook_op.before.lines))
           => (bashrc = last_hook_op.before /\ ~last_hook_op.ok)
    /\ HookBlocks(bashrc.lines) <= 1
    /\ (last_hook_op.op = "uninstall" /\ last_hook_op.ok)
           => /\ HookBlocks(bashrc.lines) = 0
              /\ \A i \in 1..Len(bashrc.lines) :
                     bashrc.lines[i] \notin {"start", "body", "end"}
              /\ WithoutLines(bashrc.lines, {"blank"})
                     = WithoutLines(last_hook_op.before.lines,
                                    {"blank", "start", "body", "end"})
              /\ Len(bashrc.lines)
                     = Len(last_hook_op.before.lines) - Len(shell_hook) + 1

\* C11 witness: a second install found the block of the first and skipped,
\* and an uninstall removed a block.
C11_Witness ==
    /\ last_hook_op.op = "uninstall"
    /\ last_hook_op.ok
    /\ hook_installs = 2

\* The service dicts that build an AIServiceConfig.
ValidService(service_dict) ==
    /\ service_dict.keys = "ok"
    /\ service_dict.type # ""
    /\ service_dict.base_url # ""
    /\ service_dict.model # ""
    /\ service_dict.timeout > 0

StoredNames(cfg) == IF cfg.ai_services.is_dict THEN DOMAIN cfg.ai_services.entries ELSE {}

\* C12: set_ai_service stores the config under the name and keeps the
\* active service when one is active; switch_ai_service for a stored name
\* returns true and from then on get_active_ai_service returns the config
\* stored under that name; switch_ai_service for a name that is not stored
\* returns false and changes neither the active service nor the stored ones.
C12_SetAndSwitch ==
    /\ (last_mgr_op.op = "set" /\ last_mgr_op.raised \in {"none", "IOError"})
           => /\ last_mgr_op.name \in StoredNames(loaded.config)
              /\ loaded.config.ai_services.entries[last_mgr_op.name] = last_mgr_op.service
              /\ (last_mgr_op.before.active_ai_service # ""
                     => loaded.config.active_ai_service
                            = last_mgr_op.before.active_ai_service)
    /\ (last_mgr_op.op = "switch" /\ last_mgr_op.name \in StoredNames(last_mgr_op.before))
           => /\ last_mgr_op.returned \/ last_mgr_op.raised = "IOError"
              /\ loaded.config.active_ai_service = last_mgr_op.name
    /\ (switched_to # "" /\ switched_to \in StoredNames(loaded.config)
            /\ ValidService(loaded.config.ai_services.entries[switched_to]))
           => get_active_ai_service(loaded.config) =
                  [raised |-> "none",
                   value |-> loaded.config.ai_services.entries[switched_to]]
    /\ (last_mgr_op.op = "switch" /\ last_mgr_op.raised = "none"
            /\ last_mgr_op.name \notin StoredNames(last_mgr_op.before))
           => /\ ~last_mgr_op.returned
              /\ loaded.config = last_mgr_op.before

\* C12 witness: a service was stored under a new name while another one
\* was active, and a later switch to it returned true.
C12_Witness ==
    /\ last_mgr_op.op = "switch"
    /\ last_mgr_op.returned
    /\ last_mgr_op.name = "ghost"
    /\ last_mgr_op.before.active_ai_service = "default"
    /\ get_active_ai_service(loaded.config).value = SVC_TEST

\* C13: in every configuration state, after loading any configuration file
\* and after any sequence of set_ai_service, switch_ai_service and
\* set_api_config, active_ai_service names an entry of ai_services.
C13_ExactlyOneActive ==
    (loaded.raised = "none")
        => loaded.config.active_ai_service \in StoredNames(loaded.config)

\* C14: every AIServiceConfig handed out by get_active_ai_service or
\* get_all_services, or stored by set_api_config, has a non-empty type,
\* base_url and model and a timeout above 0; building one that has not
\* raises and leaves the stored configuration as it was.
C14_ServiceConfigValid ==
    /\ \A handed \in last_mgr_op.handed : ValidService(handed)
    /\ (last_mgr_op.op = "set_api" /\ last_mgr_op.returned)
           => /\ ValidService(last_mgr_op.service)
              /\ loaded.config.ai_services.entries[last_mgr_op.name]
                     = last_mgr_op.service
    /\ (last_mgr_op.op = "set_api" /\ ~ValidService(last_mgr_op.service))
           => /\ last_mgr_op.raised = "ValueError"
              /\ loaded.config = last_mgr_op.before
    /\ (/\ last_mgr_op.op = "get_active"
        /\ last_mgr_op.before.active_ai_service \in StoredNames(last_mgr_op.before)
        /\ ~ValidService(last_mgr_op.before.ai_services.entries[
                             last_mgr_op.before.active_ai_service]))
           => /\ last_mgr_op.raised \in {"ValueError", "TypeError"}
              /\ last_mgr_op.handed = {}
              /\ loaded.config = last_mgr_op.before

\* C14 witness: set_api_config was given an empty model after a
\* get_active_ai_service on a stored service with timeout 0 had raised.
C14_Witness ==
    /\ last_mgr_op.op = "set_api"
    /\ last_mgr_op.service = SVC_NO_MODEL
    /\ last_mgr_op.raised = "ValueError"
    /\ get_active_ai_service(loaded.config).raised = "ValueError"
    /\ "default" \in StoredNames(loaded.config)
    /\ loaded.config.ai_services.entries["default"] = SVC_NO_TIMEOUT
(***************************************************************************)
(* The provider factory and the providers.                                 *)
(***************************************************************************)
\* Two type strings that differ at most in the case of their letters.
SameIgnoringCase(a, b) ==
    /\ Len(a) = Len(b)
    /\ \A i \in 1..Len(a) :
          \/ a[i] = b[i]
          \/ upper_char(a[i]) = b[i]
          \/ a[i] = upper_char(b[i])

\* The variant each recognized type stands for.
VariantOf(type) ==
    CASE SameIgnoringCase(type, T_openai) -> "OpenAIProvider"
      [] SameIgnoringCase(type, T_custom) -> "OpenAIProvider"
      [] SameIgnoringCase(type, T_ollama) -> "OllamaProvider"
      [] SameIgnoringCase(type, T_anthropic) -> "AnthropicProvider"
      [] OTHER -> "none"

\* C15: the factory selects the variant from the type string without regard
\* to case: openai and custom give the chat-completion provider, ollama the
\* single-prompt provider, anthropic the custom-auth provider; every other
\* type string fails with the unsupported-type error (ValueError) and no
\* provider is returned for it.
C15_FactoryByType ==
    provider_created.type # <<>> =>
        IF VariantOf(provider_created.type) # "none"
        THEN /\ provider_created.raised = "none"
             /\ provider_created.class = VariantOf(provider_created.type)
        ELSE /\ provider_created.raised = "ValueError"
             /\ provider_created.class = "none"

\* C15 witness: a type spelled with upper-case letters got its provider.
C15_Witness ==
    /\ provider_created.type # <<>>
    /\ provider_created.type # lower(provider_created.type)
    /\ SameIgnoringCase(provider_created.type, T_anthropic)
    /\ provider_created.class = "AnthropicProvider"

\* The transport failures: no response, a status outside 2xx, or a 200
\* response whose body is malformed or lacks the fields the variant reads.
TransportFailed(t) ==
    \/ t.kind \in {"timeout", "refused"}
    \/ t.kind = "http_error"
    \/ /\ t.kind = "response"
       /\ t.status = "200"
       /\ t.body \notin {"answer", "blank_answer"}

ErrorPrefixes ==
    {"API call failed: ", "Ollama connection failed: ",
     "Ollama API call failed: ", "Anthropic API call failed: "}

\* C16: whichever provider is called, when the transport fails (timeout or
\* connection error, a status outside 2xx, a 200 response with a malformed
\* body or without the expected fields) call_api raises nothing and returns
\* a non-empty text that starts with an error prefix.
C16_CallApiReturnsErrorText ==
    (provider_call.called /\ TransportFailed(provider_call.transport)) =>
        /\ provider_call.raised = "none"
        /\ provider_call.text # <<>>
        /\ Head(provider_call.text) \in ErrorPrefixes

\* C16 witness: the chat-completion provider met an HTTP error whose body
\* is not UTF-8, which leaves _http_request as an exception.
C16_Witness ==
    /\ provider_call.called
    /\ provider_call.class = "OpenAIProvider"
    /\ provider_call.transport.kind = "http_error"
    /\ provider_call.transport.body = "undecodable"
    /\ provider_call.raised = "none"
    /\ provider_call.text # <<>>

\* C17: one monitor or ask invocation calls the backend at most once, and
\* when it called it the text it returns is the text of that first call,
\* the error text included.
C17_BackendCalledOnce ==
    invocation.kind # "none" =>
        /\ invocation.backend_calls <= 1
        /\ invocation.backend_calls = 1 =>
              invocation.text =
                  call_api(create_provider(invocation.type).class,
                           invocation.transports[1]).text

\* C17 witness: a monitor invocation whose only request timed out displayed
\* the error text.
C17_Witness ==
    /\ invocation.kind = "monitor"
    /\ invocation.transports[1].kind = "timeout"
    /\ invocation.backend_calls = 1
    /\ invocation.displayed
    /\ Head(invocation.text) \in ErrorPrefixes

\* C18: with one process per failure, two monitor processes that deliver the
\* same command and exit code less than five seconds apart both analyze it:
\* when the first was accepted and answered, the second is accepted and
\* calls the backend too.
C18_WindowIneffective ==
    ( /\ process_run.ran
      /\ prev_process_run.ran
      /\ process_run.command = prev_process_run.command
      /\ process_run.exit_code = prev_process_run.exit_code
      /\ process_run.at - prev_process_run.at < DEDUP_WINDOW
      /\ prev_process_run.accepted
      /\ prev_process_run.backend_calls = 1
      /\ process_run.reached )
    => /\ process_run.accepted
       /\ process_run.backend_calls = 1

\* C18 witness: the same failure analyzed twice, two seconds apart.
C18_Witness ==
    /\ process_run.ran
    /\ prev_process_run.ran
    /\ process_run.command = prev_process_run.command
    /\ process_run.exit_code = prev_process_run.exit_code
    /\ process_run.at = prev_process_run.at + 2
    /\ prev_process_run.accepted
    /\ prev_process_run.backend_calls = 1
    /\ prev_process_run.dedup.last_analyzed_command
           = command_key(process_run.command, process_run.exit_code)
    /\ process_run.accepted
    /\ process_run.backend_calls = 1

(***************************************************************************)
(* The deduplicator's stored key and time.                                 *)
(***************************************************************************)
\* C19: when analyze_error has accepted a failure and returned, the stored
\* key is that failure's key and the stored time is the time of the
\* acceptance, also when a later step of the call failed.
C19_StoredOnAcceptance ==
    last_call.accepted =>
        /\ last_analyzed_command
               = command_key(last_call.command, last_call.exit_code)
        /\ last_analyzed_time = last_call.at

\* C20: a failure is rejected whenever its key was accepted less than five
\* seconds before, whatever other keys were accepted in between.
C20_RejectedWithinWindow ==
    ( /\ last_failure.presented
      /\ last_failure.earlier # NeverAccepted
      /\ last_failure.at - last_failure.earlier < DEDUP_WINDOW )
    => ~last_failure.accepted

(***************************************************************************)
(* The filters.                                                            *)
(***************************************************************************)
\* The internal-tooling commands: shell builtins by prefix, and invocations
\* of the monitor entry point.
IsInternalTooling(command) ==
    \/ \E w \in {W_return, W_local, W_set, W_export} : StartsWith(command, w)
    \/ Contains(command, W_python3) /\ Contains(command, W_monitor)
    \/ Contains(command, W_ai_companion)

\* C21: for every exit code, every time and every state of the analyzer,
\* _should_analyze rejects a command that starts with return, local, set or
\* export, that contains python3 and --monitor, or that contains
\* _ai_companion; so the monitor's own invocation is never analyzed.
C21_ToolingRejected ==
    (gate_call.done /\ IsInternalTooling(gate_call.command)) =>
        ~gate_call.accepted

\* C21 witness: the monitor invocation itself, failing with exit code 1 on
\* a new analyzer, was rejected.
C21_Witness ==
    /\ gate_call.done
    /\ gate_call.command = cmd_python3_monitor
    /\ gate_call.exit_code = 1
    /\ gate_call.dedup.last_analyzed_command = NoKey
    /\ ~gate_call.accepted

\* C27: the hook suppresses a command exactly when should_analyze_command
\* rejects it as internal tooling.
C27_SameFilter ==
    gate_call.done => (gate_call.hook_suppressed <=> gate_call.tooling_rejected)

(***************************************************************************)
(* Recent commands and the intent of a command list.                       *)
(***************************************************************************)
NoDuplicates(seq) ==
    \A i, j \in 1..Len(seq) : seq[i] = seq[j] => i = j

\* C22: with fewer than limit entries in the log the result of
\* get_shell_history has at most limit entries and no command twice; with
\* at least limit entries it is the last limit commands of the log.
C22_RecentMergedUnique ==
    recent_call.done =>
        IF Len(recent_call.log) >= recent_call.limit
        THEN recent_call.result = LastK(recent_call.log, recent_call.limit)
        ELSE /\ Len(recent_call.result) <= recent_call.limit
             /\ NoDuplicates(recent_call.result)

\* The label the intent table gives to the last three commands.
ExpectedIntent(commands) ==
    LET recent_commands == LastK(commands, 3)
        hits == {k \in 1..Len(sequence_patterns) :
                    \E c \in 1..Len(recent_commands) :
                        \E j \in 1..Len(sequence_patterns[k].keywords) :
                            Contains(recent_commands[c],
                                     sequence_patterns[k].keywords[j])}
    IN  IF hits = {} THEN <<"routine">>
        ELSE <<"doing",
               sequence_patterns[CHOOSE k \in hits : \A m \in hits : k <= m].name>>

\* C23: for a command list of any length, 0 and 1 included, the result of
\* analyze_command_sequence is the label of the first intent of the table
\* that has a keyword inside one of the last three commands, and the
\* routine label when there is none.
C23_IntentOfLastThree ==
    intent_call.done =>
        intent_call.result = ExpectedIntent(intent_call.commands)

(***************************************************************************)
(* The snapshot.                                                           *)
(***************************************************************************)
\* C24: a snapshot that has started completes, also when the child of one
\* of its probes never exits on its own.
C24_SnapshotTerminates ==
    (snapshot.state = "running") ~> (snapshot.state = "done")

(***************************************************************************)
(* Install and uninstall as a round trip.                                  *)
(***************************************************************************)
\* C30: when install wrote the hook into a file without the delimiter and
\* uninstall then removed it, the file is what it was before the install.
C30_InstallUninstallRoundTrip ==
    ( /\ last_hook_op.op = "uninstall"
      /\ last_hook_op.ok
      /\ last_hook_op.prev_op = "install"
      /\ last_hook_op.prev_ok
      /\ ~HasHookName(last_hook_op.prev_before.lines) )
    => bashrc = last_hook_op.prev_before

(***************************************************************************)
(* The gate in front of the monitor pipeline.                              *)
(***************************************************************************)
\* C28: monitor_command calls the backend, builds a prompt and displays a
\* text only for a failure the gate accepted; for exit code 0, for a
\* disabled auto_error_analysis and for a rejected failure it does none of
\* these and leaves the stored key and time as they were.
C28_GateBeforeBackend ==
    ( /\ last_failure.presented
      /\ \/ last_failure.exit_code = 0
         \/ ~last_failure.auto_error_analysis
         \/ ~last_failure.accepted )
    => /\ last_failure.backend_calls = 0
       /\ ~last_failure.prompt_built
       /\ ~last_failure.displayed
       /\ analyzer = last_failure.dedup_before

\* C28 witness: a failure with the feature on was rejected inside the
\* window of its key and nothing was called or shown.
C28_Witness ==
    /\ last_failure.presented
    /\ last_failure.exit_code = 1
    /\ last_failure.auto_error_analysis
    /\ last_failure.dedup_before.last_analyzed_command = last_failure.key
    /\ ~last_failure.accepted
    /\ last_failure.backend_calls = 0
    /\ ~last_failure.displayed


\* C25: the prompt hook is in Reporting, with the entry point started, only
\* after a foreground command whose exit code is neither 0 nor 130 and
\* whose text passes the hook's filter; the entry point is started once for
\* that command, with the command text, the exit code and the encoded
\* stderr as its three positional values.
C25_ReportsFailureOnce ==
    /\ (session.state = "Reporting" /\ session.delivery.by = "prompt_command") =>
           /\ session.exit_code \notin {0, SIGINT_EXIT}
           /\ hook_filter_passes(session.last_command)
           /\ session.delivery.argc = 3
           /\ session.delivery.command = session.last_command
           /\ session.delivery.exit_code = session.exit_code
    /\ session.invocations <= 1

\* C26: whenever the hook is in Reporting it is later in Idle, whatever the
\* analysis process does.
C26_ReportingReturnsToIdle ==
    (session.state = "Reporting") ~> (session.state = "Idle")

\* C29: the stderr text delivered with a failed command is text that
\* command wrote (or the hook's own message), never text an earlier
\* command left in the capture file.
C29_DeliveredStderrIsOwn ==
    session.state = "Reporting" =>
        session.delivery.stderr_of \in {0, session.delivery.for}
====
